---- MODULE Spec2Model ----
(***************************************************************************)
(* Vekkam Engine (src/streamlit_app.py): the Mock Test Generator and the   *)
(* Mastery Engine as state machines over one Streamlit session.            *)
(*                                                                         *)
(* st.session_state is the variable session_state: a function whose domain *)
(* is the set of keys present in the session.  Reading an attribute whose  *)
(* key is not present raises AttributeError, which ends the script run;    *)
(* what the run assigned before the raise is kept.                         *)
(*                                                                         *)
(* One step of the model is one script run: a widget event (a button, a    *)
(* form submit, the tool radio) handled by the run it triggers, together   *)
(* with the st.rerun() run that follows when that run has no effect of its *)
(* own; a run that calls the generation service is a step of its own, and  *)
(* the service's answer is the step's input.                               *)
(***************************************************************************)
EXTENDS Integers, Sequences, FiniteSets, TLC

VARIABLES
    session_state,    \* st.session_state: key |-> value, DOMAIN = keys present
    course_template,  \* the module-level dict ECON_101_GENOME
    wrapper,          \* the frame of a call of a gemini_api_call_with_retry function
    call,             \* a call of a function of the module: its arguments and its result
    other_session,    \* st.session_state of a second browser session
    user_data_file,   \* the JSON file of the user under DATA_DIR
    today_str,        \* datetime.now().strftime("%Y-%m-%d"), as a day number
    script_run,       \* the script runs of the user's sessions that use the file
    user_secrets,     \* login app: the table user_secrets, email |-> gemini_api_key
    last,             \* history: the handler that made the last step
    passed            \* history: the stage results passed since the syllabus was submitted

vars == <<session_state, course_template, wrapper, call, other_session,
         user_data_file, today_str, script_run, user_secrets, last, passed>>

\* no second session is open
NoSession == <<>>

\* filepath.exists() is false
NoFile == [exists |-> FALSE]

\* no script run that uses the file is followed
NoRuns == <<>>

\* the table user_secrets has no row
NoRows == <<>>

\* no function is being followed on its own
NoFunctionCall == [fn |-> "", args |-> <<>>, returned |-> FALSE, result |-> <<>>]

\* no call of a wrapped function is in progress
NoCall ==
    [pc |-> "idle", retries |-> 0, delay |-> 0, wait_time |-> 0, result |-> "",
     calls |-> 0, raised |-> <<>>, slept |-> <<>>]

-----------------------------------------------------------------------------
(* Bounds and input sets                                                   *)

\* number of distinct topics the learner types into "Create Your Own Concept"
MaxUserConcepts == 1

\* number of nodes of the course genomes drawn by InitAnyGenome
MaxGraphNodes == 3

\* sizes of the "questions" list the generation service may return (the
\* prompt asks for 10, 10, 5 or 3; the code accepts any list, also an empty
\* one): in the Mock Test Generator, and in a boss battle
QuestionSetSizes == {0, 4, 10}

BattleSetSizes == {0, 4, 10, 12}

\* syllabus texts of at least 50 characters the learner may paste
Syllabi == {"SYLLABUS_1", "SYLLABUS_2"}

\* a syllabus text of fewer than 50 characters
ShortSyllabus == "SHORT"

-----------------------------------------------------------------------------
(* st.session_state as a function                                          *)

Has(ss, k) == k \in DOMAIN ss

Put(ss, k, v) == [x \in DOMAIN ss \cup {k} |-> IF x = k THEN v ELSE ss[x]]

Del(ss, ks) == [x \in DOMAIN ss \ ks |-> ss[x]]

\* a Python dict: a function with a finite domain
EmptyDict == [x \in {} |-> 0]

DictPut(d, k, v) == [x \in DOMAIN d \cup {k} |-> IF x = k THEN v ELSE d[x]]

DictDel(d, k) == [x \in DOMAIN d \ {k} |-> d[x]]

\* d.get(k, default)
DictGet(d, k, default) == IF k \in DOMAIN d THEN d[k] ELSE default

-----------------------------------------------------------------------------
(* reset_session and the tool radio                                        *)

Tools == {"Note & Lesson Engine", "Personal TA", "Mock Test Generator", "Mastery Engine"}

keys_to_preserve == {"user_info", "all_chunks", "tool_choice", "last_tool_choice", "landing_view"}

\* a reset that keeps the login and the tool choice only
reset_session_dropping_all_chunks(ss) ==
    Del(ss, DOMAIN ss \ {"user_info", "tool_choice", "last_tool_choice", "landing_view"})

reset_session(ss) == Del(ss, DOMAIN ss \ keys_to_preserve)

\* the deletion loop without 'questions'
TestKeysKeepingQuestions == {"test_stage", "syllabus", "user_answers", "score", "feedback"}

TestKeys == {"test_stage", "syllabus", "questions", "user_answers", "score", "feedback"}

\* the "if 'k' not in st.session_state" defaults at the top of show_mock_test_generator
show_mock_test_generator_init(ss) ==
    LET s1 == IF Has(ss, "test_stage") THEN ss ELSE Put(ss, "test_stage", "start")
        s2 == IF Has(s1, "syllabus") THEN s1 ELSE Put(s1, "syllabus", "")
        s3 == IF Has(s2, "questions") THEN s2 ELSE Put(s2, "questions", EmptyDict)
        s4 == IF Has(s3, "user_answers") THEN s3 ELSE Put(s3, "user_answers", EmptyDict)
        s5 == IF Has(s4, "score") THEN s4 ELSE Put(s4, "score", EmptyDict)
    IN  IF Has(s5, "feedback") THEN s5 ELSE Put(s5, "feedback", EmptyDict)

-----------------------------------------------------------------------------
(* Mock Test Generator: stage_map of show_mock_test_generator               *)

q_types == {"mcq", "vsa", "sa", "la"}

subjective_types == {"vsa", "sa", "la"}

generating_stage(q) ==
    CASE q = "mcq" -> "mcq_generating" [] q = "vsa" -> "vsa_generating"
      [] q = "sa" -> "sa_generating"   [] q = "la" -> "la_generating"

\* second argument of render_generating_questions in stage_map
test_stage_of(q) ==
    CASE q = "mcq" -> "mcq_test" [] q = "vsa" -> "vsa_test"
      [] q = "sa" -> "sa_test"   [] q = "la" -> "la_test"

\* argument of render_mcq_test / second argument of render_subjective_test
results_stage_of(q) ==
    CASE q = "mcq" -> "mcq_results" [] q = "vsa" -> "vsa_results"
      [] q = "sa" -> "sa_results"   [] q = "la" -> "la_results"

\* pass_mark_percent argument of render_mcq_results / render_subjective_results
pass_mark_percent(q) ==
    CASE q = "mcq" -> 70 [] q = "vsa" -> 75 [] q = "sa" -> 80 [] q = "la" -> 90

\* a stage_map whose MCQ results lead straight to the Short Answer stage
next_stage_skipping_vsa(q) ==
    CASE q = "mcq" -> "sa_generating" [] q = "vsa" -> "sa_generating"
      [] q = "sa" -> "la_generating"  [] q = "la" -> "final_results"

\* next_stage argument of render_mcq_results / render_subjective_results
next_stage_of(q) ==
    CASE q = "mcq" -> "vsa_generating" [] q = "vsa" -> "sa_generating"
      [] q = "sa" -> "la_generating"   [] q = "la" -> "final_results"

\* the gate with > in place of >=
passes_strictly(score, total, percent) ==
    /\ total # 0
    /\ score * 100 > percent * total

\* (score / total * 100) >= pass_mark_percent.  Python evaluates the left side
\* in double precision; for the four pass marks used and every total below 400
\* the float comparison agrees with the exact one, which is what is computed
\* here (the quotient is floored; the pass mark is an integer).  total = 0
\* raises ZeroDivisionError: the run ends before either button is drawn.
passes(score, total, percent) ==
    /\ total # 0
    /\ (score * 100) \div total >= percent

fails(score, total, percent) ==
    /\ total # 0
    /\ ~((score * 100) \div total >= percent)

\* what generate_questions_from_syllabus can return: None (or an object
\* without "questions"), or an object whose "questions" list has n entries
GenerationResults(sizes) ==
    {[ok |-> FALSE, n |-> 0]} \cup {[ok |-> TRUE, n |-> n] : n \in sizes}

\* a generation step that moves on without storing the generated set
render_generating_questions_keeping_set(ss, q_type, next_stage, questions_json) ==
    IF questions_json.ok
    THEN IF Has(ss, "questions") THEN Put(ss, "test_stage", next_stage) ELSE ss
    ELSE Put(ss, "test_stage", "start")

\* render_generating_questions(q_type, next_stage, q_count)
render_generating_questions(ss, q_type, next_stage, questions_json) ==
    IF questions_json.ok
    THEN IF Has(ss, "questions")
         THEN Put(Put(ss, "questions", DictPut(ss["questions"], q_type, questions_json.n)),
                  "test_stage", next_stage)
         ELSE ss   \* st.session_state.questions raises AttributeError
    ELSE Put(ss, "test_stage", "start")

\* render_mcq_test(next_stage), "Submit Answers": correct is the number of
\* questions whose selected option key equals the answer key
render_mcq_test(ss, next_stage, correct) ==
    IF Has(ss, "questions") /\ Has(ss, "user_answers") /\ Has(ss, "score")
    THEN Put(Put(Put(ss, "user_answers", DictPut(ss["user_answers"], "mcq", correct)),
                 "score", DictPut(ss["score"], "mcq", correct)),
             "test_stage", next_stage)
    ELSE ss   \* AttributeError on the first missing key

Tool(ss) == ss["tool_choice"]

InMock == Tool(session_state) = "Mock Test Generator"

Stage == session_state["test_stage"]

Questions(q) == DictGet(session_state["questions"], q, 0)

Score(q) == DictGet(session_state["score"], q, 0)

Step(op, arg) == [op |-> op, arg |-> arg]

\* json.loads(json.dumps(ECON_101_GENOME)) copies the template; no handler writes it.
\* A handler's step takes the service's answer as its input: the frame of the
\* retry wrapper is not part of it.
OtherFrames == UNCHANGED <<wrapper, call, other_session, user_data_file, today_str, script_run, user_secrets>>

Frame == UNCHANGED course_template /\ OtherFrames

\* render_syllabus_input, "Generate My Test"
render_syllabus_input ==
    /\ Frame
    /\ InMock /\ Stage = "start"
    /\ \E syllabus_text \in Syllabi \cup {ShortSyllabus} :
         IF syllabus_text = ShortSyllabus
         THEN /\ UNCHANGED <<session_state, passed>>
              /\ last' = Step("render_syllabus_input", "too short")
         ELSE /\ session_state' = Put(Put(session_state, "syllabus", syllabus_text),
                                      "test_stage", "mcq_generating")
              /\ passed' = <<>>
              /\ last' = Step("render_syllabus_input", syllabus_text)

\* the run of an X_generating stage
mock_generating ==
    /\ Frame
    /\ InMock
    /\ \E q \in q_types, questions_json \in GenerationResults(QuestionSetSizes) :
         /\ Stage = generating_stage(q)
         /\ session_state' = render_generating_questions(session_state, q, test_stage_of(q),
                                                          questions_json)
         /\ last' = IF questions_json.ok
                    THEN [op |-> "render_generating_questions", arg |-> "generated",
                          n |-> questions_json.n,
                          was |-> DictGet(session_state["questions"], q, -1)]
                    ELSE Step("render_generating_questions", "failed")
         /\ UNCHANGED passed

\* render_mcq_test('mcq_results'), "Submit Answers"
mock_mcq_test ==
    /\ Frame
    /\ InMock /\ Stage = "mcq_test"
    /\ \E correct \in 0..Questions("mcq") :
         session_state' = render_mcq_test(session_state, "mcq_results", correct)
    /\ last' = Step("render_mcq_test", "mcq")
    /\ UNCHANGED passed

\* render_mcq_results: the run that fetches the performance feedback
\* (generate_feedback_on_performance returns text, or None after an API error)
render_mcq_results_run ==
    /\ Frame
    /\ InMock /\ Stage = "mcq_results"
    /\ "mcq" \notin DOMAIN session_state["feedback"]
    /\ \E feedback_text \in {"text", "None"} :
         session_state' = Put(session_state, "feedback",
                              DictPut(session_state["feedback"], "mcq", feedback_text))
    /\ last' = Step("render_mcq_results", "feedback")
    /\ UNCHANGED passed

\* render_mcq_results, "Proceed to Very Short Answers"
render_mcq_results_proceed ==
    /\ Frame
    /\ InMock /\ Stage = "mcq_results"
    /\ "mcq" \in DOMAIN session_state["feedback"]
    /\ passes(Score("mcq"), Questions("mcq"), pass_mark_percent("mcq"))
    /\ session_state' = Put(session_state, "test_stage", next_stage_of("mcq"))
    /\ passed' = Append(passed, [stage |-> "mcq", score |-> Score("mcq"),
                                 total |-> Questions("mcq")])
    /\ last' = Step("render_mcq_results", "proceed")

\* render_mcq_results, "Restart Test": the six keys are deleted and the rerun
\* starts show_mock_test_generator afresh
render_mcq_results_restart ==
    /\ Frame
    /\ InMock /\ Stage = "mcq_results"
    /\ "mcq" \in DOMAIN session_state["feedback"]
    /\ fails(Score("mcq"), Questions("mcq"), pass_mark_percent("mcq"))
    /\ session_state' = show_mock_test_generator_init(Del(session_state, TestKeys))
    /\ passed' = <<>>
    /\ last' = Step("render_mcq_results", "restart")

\* render_subjective_test(q_type, next_stage), "Submit Answers": one answer
\* record per question is stored
render_subjective_test(ss, q_type, next_stage) ==
    Put(Put(ss, "user_answers",
            DictPut(ss["user_answers"], q_type, DictGet(ss["questions"], q_type, 0))),
        "test_stage", next_stage)

mock_subjective_test ==
    /\ Frame
    /\ InMock
    /\ \E q \in subjective_types :
         /\ Stage = test_stage_of(q)
         /\ session_state' = render_subjective_test(session_state, q, results_stage_of(q))
         /\ last' = Step("render_subjective_test", q)
    /\ UNCHANGED passed

\* what grade_subjective_answers can return for a set of n questions: None
\* (the retry wrapper's result after rate-limit exhaustion or any other
\* exception, resilient_json_parser's result for an unparsable answer; an
\* empty object is falsy too), an object without "total_score", or an object
\* with "total_score" and "feedback_per_question".  The list is modelled by
\* the number of its records and the number of those with score_awarded = 1.
\* The service is asked for one 0/1 record per question and their sum; the
\* last object is an answer that reports one point more than it awarded.
GradingResults(n) ==
    {[kind |-> "None", total_score |-> 0, records |-> 0, ones |-> 0],
     [kind |-> "no total_score", total_score |-> 0, records |-> n, ones |-> 0]}
    \cup {[kind |-> "graded", total_score |-> t, records |-> n, ones |-> t] : t \in 0..n}
    \cup {[kind |-> "graded", total_score |-> n + 1, records |-> n, ones |-> n]}

\* the grading record kept in feedback[q_type]: the object itself, or {}
FeedbackOf(grading_result) ==
    [records |-> grading_result.records, ones |-> grading_result.ones]

NoFeedback == [records |-> 0, ones |-> 0]

\* render_subjective_results, the grading block under the spinner; it runs
\* only when the stage has no score yet
grade_block(ss, q_type, grading_result) ==
    IF q_type \in DOMAIN ss["score"]
    THEN ss
    ELSE CASE grading_result.kind = "graded" ->
                Put(Put(ss, "score", DictPut(ss["score"], q_type, grading_result.total_score)),
                    "feedback", DictPut(ss["feedback"], q_type, FeedbackOf(grading_result)))
           [] grading_result.kind = "no total_score" ->
                ss   \* grading_result['total_score'] raises KeyError
           [] OTHER ->
                Put(Put(ss, "score", DictPut(ss["score"], q_type, 0)),
                    "feedback", DictPut(ss["feedback"], q_type, NoFeedback))

\* render_subjective_results: the run that grades
render_subjective_results_run ==
    /\ Frame
    /\ InMock
    /\ \E q \in subjective_types :
         /\ Stage = results_stage_of(q)
         /\ q \notin DOMAIN session_state["score"]
         /\ \E grading_result \in GradingResults(Questions(q)) :
              /\ session_state' = grade_block(session_state, q, grading_result)
              /\ last' = Step("render_subjective_results", grading_result.kind)
    /\ UNCHANGED passed

\* render_subjective_results, "Proceed to ..."
render_subjective_results_proceed ==
    /\ Frame
    /\ InMock
    /\ \E q \in subjective_types :
         /\ Stage = results_stage_of(q)
         /\ q \in DOMAIN session_state["score"]
         /\ passes(Score(q), Questions(q), pass_mark_percent(q))
         /\ session_state' = Put(session_state, "test_stage", next_stage_of(q))
         /\ passed' = Append(passed, [stage |-> q, score |-> Score(q), total |-> Questions(q)])
         /\ last' = Step("render_subjective_results", "proceed")

\* render_subjective_results, "Restart ... Test"
subjective_restart(ss, q_type) ==
    Put(Put(Put(Put(ss, "test_stage", generating_stage(q_type)),
                "user_answers", DictDel(ss["user_answers"], q_type)),
            "score", DictDel(ss["score"], q_type)),
        "feedback", DictDel(ss["feedback"], q_type))

render_subjective_results_restart ==
    /\ Frame
    /\ InMock
    /\ \E q \in subjective_types :
         /\ Stage = results_stage_of(q)
         /\ q \in DOMAIN session_state["score"]
         /\ fails(Score(q), Questions(q), pass_mark_percent(q))
         /\ session_state' = subjective_restart(session_state, q)
         /\ last' = Step("render_subjective_results", "restart")
    /\ UNCHANGED passed

\* render_final_results, "Take a New Test"
render_final_results ==
    /\ Frame
    /\ InMock /\ Stage = "final_results"
    /\ session_state' = show_mock_test_generator_init(Del(session_state, TestKeys))
    /\ passed' = <<>>
    /\ last' = Step("render_final_results", "new test")

-----------------------------------------------------------------------------
(* Mastery Engine                                                          *)

\* A genome node is modelled by its gene_id (gene_name and content_alleles
\* are functions of it); "edges" is modelled as a set: the code reads it in
\* a set comprehension and in a loop of independent assignments.
ECON_101_GENOME ==
    [subject |-> "Econ 101",
     nodes   |-> <<"ECON101_SCARCITY", "ECON101_OPPCOST", "ECON101_SND">>,
     edges   |-> {[from |-> "ECON101_SCARCITY", to |-> "ECON101_OPPCOST"],
                  [from |-> "ECON101_OPPCOST", to |-> "ECON101_SND"]}]

\* current_genome = None
NoneGenome == [subject |-> "None", nodes |-> <<>>, edges |-> {}]

CustomGenome == [subject |-> "My Custom Concepts", nodes |-> <<>>, edges |-> {}]

Range(f) == {f[i] : i \in DOMAIN f}

\* generate_allele_from_query: gene_id = "USER_" + md5(user_topic)[:8]; the
\* k-th topic the learner may type has the k-th id
UserGeneIds == <<"USER_A", "USER_B", "USER_C", "USER_D">>

UserTopics == 1..MaxUserConcepts

gene_id(user_topic) == UserGeneIds[user_topic]

\* the defaults at the top of show_mastery_engine
show_mastery_engine_init(ss) ==
    LET s1 == IF Has(ss, "mastery_stage") THEN ss
              ELSE Put(ss, "mastery_stage", "course_selection")
        s2 == IF Has(s1, "user_progress") THEN s1 ELSE Put(s1, "user_progress", EmptyDict)
    IN  IF Has(s2, "current_genome") THEN s2 ELSE Put(s2, "current_genome", NoneGenome)

\* a loader that takes the nodes without an outgoing edge for the roots
initial_progress_by_source(genome) ==
    LET all_node_ids == Range(genome.nodes)
        source_nodes == {edge.from : edge \in genome.edges}
    IN  [node_id \in all_node_ids |->
            IF node_id \in all_node_ids \ source_nodes THEN "unlocked" ELSE "locked"]

\* render_course_selection, "Econ 101": the progress of a freshly loaded genome
initial_progress(genome) ==
    LET all_node_ids == Range(genome.nodes)
        destination_nodes == {edge.to : edge \in genome.edges}
        root_nodes == all_node_ids \ destination_nodes
    IN  [node_id \in all_node_ids |->
            IF node_id \in root_nodes THEN "unlocked" ELSE "locked"]

load_course(ss, genome) ==
    Put(Put(Put(ss, "current_genome", genome),
            "user_progress", initial_progress(genome)),
        "mastery_stage", "skill_tree")

\* "Generate Concept Allele" without the membership test of line 1257
add_concept_always_appending(ss, new_allele) ==
    LET s1 == IF ss["current_genome"] = NoneGenome
              THEN Put(ss, "current_genome", CustomGenome) ELSE ss
        genome == s1["current_genome"]
    IN  IF new_allele = "None"
        THEN s1
        ELSE Put(Put(Put(s1, "current_genome",
                         [genome EXCEPT !.nodes = Append(genome.nodes, new_allele)]),
                     "user_progress", DictPut(s1["user_progress"], new_allele, "unlocked")),
                 "mastery_stage", "skill_tree")

\* render_course_selection, "Generate Concept Allele": new_allele is the
\* gene_id of the generated allele, or "None"
add_concept(ss, new_allele) ==
    LET s1 == IF ss["current_genome"] = NoneGenome
              THEN Put(ss, "current_genome", CustomGenome) ELSE ss
        genome == s1["current_genome"]
        nodes2 == IF new_allele \notin Range(genome.nodes)
                  THEN Append(genome.nodes, new_allele) ELSE genome.nodes
    IN  IF new_allele = "None"
        THEN s1
        ELSE Put(Put(Put(s1, "current_genome", [genome EXCEPT !.nodes = nodes2]),
                     "user_progress", DictPut(s1["user_progress"], new_allele, "unlocked")),
                 "mastery_stage", "skill_tree")

challenge_boss_keeping_syllabus(ss, node_id) ==
    Del(Put(Put(ss, "mastery_stage", "boss_battle"),
            "test_stage", "mcq_generating"),
        {"questions", "user_answers", "score", "feedback"})

\* render_content_viewer, "Challenge Boss": the syllabus is built from the
\* node's name and text alleles, here the node's id
challenge_boss(ss, node_id) ==
    Del(Put(Put(Put(ss, "mastery_stage", "boss_battle"),
                "syllabus", node_id),
            "test_stage", "mcq_generating"),
        {"questions", "user_answers", "score", "feedback"})

\* a victory branch without the test edge['from'] == node_id of line 1329
mark_mastered_unlocking_every_target(user_progress, genome, node_id) ==
    LET targets == {edge.to : edge \in genome.edges}
    IN  [x \in DOMAIN user_progress \cup {node_id} \cup targets |->
            IF x \in targets THEN "unlocked"
            ELSE IF x = node_id THEN "mastered"
            ELSE user_progress[x]]

\* render_boss_battle, the victory branch: lines 1327-1330
mark_mastered(user_progress, genome, node_id) ==
    LET targets == {edge.to : edge \in {e \in genome.edges : e.from = node_id}}
    IN  [x \in DOMAIN user_progress \cup {node_id} \cup targets |->
            IF x \in targets THEN "unlocked"
            ELSE IF x = node_id THEN "mastered"
            ELSE user_progress[x]]

\* render_boss_battle: one script run.  questions_json is the service's answer
\* when the run generates, correct the number of right answers when the run
\* handles "Submit Answers", click the button pressed ("none" for a run that
\* only draws the page).
render_boss_battle(ss, questions_json, correct, click) ==
    IF ~Has(ss, "selected_node_id")
    THEN Del(Put(ss, "mastery_stage", "skill_tree"), TestKeys)
    ELSE
    LET node_id == ss["selected_node_id"]
        s0 == IF Has(ss, "test_stage") THEN ss ELSE Put(ss, "test_stage", "mcq_generating")
        stage == s0["test_stage"]
    IN  IF node_id \notin Range(ss["current_genome"].nodes)
        THEN ss   \* node_data is None: node_data['gene_name'] raises TypeError
        ELSE CASE stage = "mcq_generating" ->
                    render_generating_questions(s0, "mcq", "boss_mcq_test", questions_json)
               [] stage = "boss_mcq_test" ->
                    IF click = "submit"
                    THEN render_mcq_test(s0, "boss_mcq_results", correct)
                    ELSE s0
               [] stage = "boss_mcq_results" ->
                    IF ~Has(s0, "score")
                    THEN s0   \* st.session_state.score raises AttributeError
                    ELSE IF DictGet(s0["score"], "mcq", 0) >= 7
                         THEN LET s1 == Put(s0, "user_progress",
                                            mark_mastered(s0["user_progress"],
                                                          s0["current_genome"], node_id))
                              IN  IF click = "return"
                                  THEN Del(Put(s1, "mastery_stage", "skill_tree"), TestKeys)
                                  ELSE s1
                         ELSE IF click = "return"
                              THEN Del(Put(s0, "mastery_stage", "content_viewer"), TestKeys)
                              ELSE s0
               [] OTHER -> s0

InMastery == Tool(session_state) = "Mastery Engine"

MasteryStage == session_state["mastery_stage"]

Genome == session_state["current_genome"]

Progress == session_state["user_progress"]

\* render_course_selection, "Econ 101"
render_course_selection_econ ==
    /\ Frame
    /\ InMastery /\ MasteryStage = "course_selection"
    /\ session_state' = load_course(session_state, course_template)
    /\ last' = Step("load_course", "Econ 101")
    /\ UNCHANGED passed

\* render_course_selection, "Generate Concept Allele"
current_genome_is_loaded_template(ss, template) ==
    ss["current_genome"].subject = template.subject

\* whether st.session_state.current_genome is the module-level dict itself:
\* "Econ 101" assigns json.loads(json.dumps(ECON_101_GENOME)), a new object,
\* and "Generate Concept Allele" a new dict when there is no genome
current_genome_is_template(ss, template) == FALSE

\* nodes.append(new_allele) changes the list of the session's genome in
\* place: the module-level dict changes with it when it is the same object
render_course_selection_generate ==
    /\ OtherFrames
    /\ InMastery /\ MasteryStage = "course_selection"
    /\ \E new_allele \in {gene_id(t) : t \in UserTopics} \cup {"None"} :
         /\ session_state' = add_concept(session_state, new_allele)
         /\ course_template' = IF current_genome_is_template(session_state, course_template)
                               THEN add_concept(session_state, new_allele)["current_genome"]
                               ELSE course_template
         /\ last' = Step("add_concept", new_allele)
    /\ UNCHANGED passed

\* render_skill_tree, "Learn: ..." of an unlocked node
render_skill_tree_learn ==
    /\ Frame
    /\ InMastery /\ MasteryStage = "skill_tree"
    /\ \E node_id \in Range(Genome.nodes) :
         /\ DictGet(Progress, node_id, "locked") = "unlocked"
         /\ session_state' = Put(Put(session_state, "selected_node_id", node_id),
                                 "mastery_stage", "content_viewer")
         /\ last' = Step("render_skill_tree", node_id)
    /\ UNCHANGED passed

\* render_skill_tree, "Back to Course Selection"
render_skill_tree_back ==
    /\ Frame
    /\ InMastery /\ MasteryStage = "skill_tree"
    /\ session_state' = Put(session_state, "mastery_stage", "course_selection")
    /\ last' = Step("render_skill_tree", "back")
    /\ UNCHANGED passed

\* render_content_viewer, "Back to Skill Tree" (also the redirect taken when
\* the selected node is not in the genome)
render_content_viewer_back ==
    /\ Frame
    /\ InMastery /\ MasteryStage = "content_viewer"
    /\ session_state' = Put(session_state, "mastery_stage", "skill_tree")
    /\ last' = Step("render_content_viewer", "back")
    /\ UNCHANGED passed

\* render_content_viewer, "Challenge Boss"
render_content_viewer_challenge ==
    /\ Frame
    /\ InMastery /\ MasteryStage = "content_viewer"
    /\ session_state["selected_node_id"] \in Range(Genome.nodes)
    /\ session_state' = challenge_boss(session_state, session_state["selected_node_id"])
    /\ last' = Step("challenge_boss", session_state["selected_node_id"])
    /\ UNCHANGED passed

BossClicks == {"none", "submit", "return"}

\* a script run while mastery_stage is 'boss_battle'.  The run reads the
\* service's answer in the generation step only, the number of right answers
\* in the test step only, and draws no button in the generation step.
boss_battle ==
    /\ Frame
    /\ InMastery /\ MasteryStage = "boss_battle"
    /\ LET stage == DictGet(session_state, "test_stage", "mcq_generating")
           n == DictGet(DictGet(session_state, "questions", EmptyDict), "mcq", 0)
       IN  \E questions_json \in (IF stage = "mcq_generating"
                                  THEN GenerationResults(BattleSetSizes)
                                  ELSE {[ok |-> FALSE, n |-> 0]}),
              click \in (IF stage = "mcq_generating" THEN {"none"} ELSE BossClicks),
              correct \in (IF stage = "boss_mcq_test" THEN 0..n ELSE {0}) :
             session_state' = render_boss_battle(session_state, questions_json, correct, click)
    /\ last' = Step("render_boss_battle", DictGet(session_state, "test_stage", "absent"))
    /\ UNCHANGED passed

-----------------------------------------------------------------------------
(* main: the tool radio and the tool routing                               *)

\* the first lines of the tool that main routes to
tool_routing(ss) ==
    CASE Tool(ss) = "Note & Lesson Engine" ->
            IF Has(ss, "current_state") THEN ss ELSE Put(ss, "current_state", "upload")
      [] Tool(ss) = "Mock Test Generator" -> show_mock_test_generator_init(ss)
      [] Tool(ss) = "Mastery Engine" -> show_mastery_engine_init(ss)
      [] OTHER -> ss

\* main, lines 1443-1448: another tool is picked in the sidebar radio
select_tool(ss, tool_choice) ==
    tool_routing(reset_session(Put(Put(ss, "tool_choice", tool_choice),
                                   "last_tool_choice", tool_choice)))

main_select_tool ==
    /\ Frame
    /\ \E tool_choice \in Tools \ {Tool(session_state)} :
         /\ session_state' = select_tool(session_state, tool_choice)
         /\ last' = Step("select_tool", tool_choice)
    /\ passed' = <<>>

-----------------------------------------------------------------------------
(* The application: a signed-in session, from its first script run         *)

Init ==
    /\ course_template = ECON_101_GENOME
    /\ session_state = tool_routing([user_info |-> "user",
                                     tool_choice |-> "Note & Lesson Engine",
                                     last_tool_choice |-> "Note & Lesson Engine"])
    /\ last = Step("main", "")
    /\ wrapper = NoCall
    /\ call = NoFunctionCall
    /\ other_session = NoSession
    /\ user_data_file = NoFile
    /\ today_str = 1
    /\ script_run = NoRuns
    /\ user_secrets = NoRows
    /\ passed = <<>>

Next ==
    \/ main_select_tool
    \/ render_syllabus_input
    \/ mock_generating
    \/ mock_mcq_test
    \/ render_mcq_results_run
    \/ render_mcq_results_proceed
    \/ render_mcq_results_restart
    \/ mock_subjective_test
    \/ render_subjective_results_run
    \/ render_subjective_results_proceed
    \/ render_subjective_results_restart
    \/ render_final_results
    \/ render_course_selection_econ
    \/ render_course_selection_generate
    \/ render_skill_tree_learn
    \/ render_skill_tree_back
    \/ render_content_viewer_back
    \/ render_content_viewer_challenge
    \/ boss_battle

Spec == Init /\ [][Next]_vars

-----------------------------------------------------------------------------
(* The boss battle with its assessment dicts.                              *)
(* render_boss_battle reuses render_generating_questions and               *)
(* render_mcq_test, which write into st.session_state.questions,           *)
(* user_answers and score.  Only show_mock_test_generator creates these    *)
(* dicts; reset_session drops them on the way into the Mastery Engine and  *)
(* "Challenge Boss" deletes them.  Under Spec a battle therefore stops at  *)
(* its generation step: the assignment into questions raises               *)
(* AttributeError.  SpecBattle adds the one step that is missing, the      *)
(* defaults of show_mock_test_generator applied while a battle is on, and  *)
(* is the specification under which the steps of a battle after the        *)
(* generation are examined.                                                *)

boss_battle_assessment_dicts ==
    /\ Frame
    /\ InMastery /\ MasteryStage = "boss_battle"
    /\ ~Has(session_state, "questions")
    /\ session_state' = show_mock_test_generator_init(session_state)
    /\ last' = Step("assessment_dicts", "")
    /\ UNCHANGED passed

NextBattle ==
    \/ Next
    \/ boss_battle_assessment_dicts

SpecBattle == Init /\ [][NextBattle]_vars

-----------------------------------------------------------------------------
(* The pre-built course over every prerequisite graph.                     *)
(* SpecAnyGenome draws the course template from the acyclic graphs over    *)
(* MaxGraphNodes nodes and follows the learner through the skill tree,     *)
(* the content viewer and the battles of that course.                      *)

GraphNodeIds == <<"N1", "N2", "N3", "N4", "N5">>

ForwardPairs ==
    {[from |-> GraphNodeIds[p[1]], to |-> GraphNodeIds[p[2]]] :
        p \in {q \in (1..MaxGraphNodes) \X (1..MaxGraphNodes) : q[1] < q[2]}}

Genomes ==
    {[subject |-> "Econ 101",
      nodes   |-> SubSeq(GraphNodeIds, 1, MaxGraphNodes),
      edges   |-> edges] : edges \in SUBSET ForwardPairs}

InitAnyGenome ==
    /\ course_template \in Genomes
    /\ session_state = select_tool([user_info |-> "user",
                                    tool_choice |-> "Note & Lesson Engine",
                                    last_tool_choice |-> "Note & Lesson Engine"],
                                   "Mastery Engine")
    /\ last = Step("select_tool", "Mastery Engine")
    /\ wrapper = NoCall
    /\ call = NoFunctionCall
    /\ other_session = NoSession
    /\ user_data_file = NoFile
    /\ today_str = 1
    /\ script_run = NoRuns
    /\ user_secrets = NoRows
    /\ passed = <<>>

NextAnyGenome ==
    \/ render_course_selection_econ
    \/ render_skill_tree_learn
    \/ render_skill_tree_back
    \/ render_content_viewer_back
    \/ render_content_viewer_challenge
    \/ boss_battle
    \/ boss_battle_assessment_dicts

SpecAnyGenome == InitAnyGenome /\ [][NextAnyGenome]_vars

-----------------------------------------------------------------------------
(* Two browser sessions of the Mastery Engine.                             *)
(* Streamlit keeps one st.session_state per session and runs one script    *)
(* thread per session; the module-level dict is shared.  session_state is  *)
(* the session whose script runs, other_session a second session that      *)
(* waits between two of its runs, on one of the pages of WaitingSessions.  *)
(* The two sessions run the same script: a run of the second session is a  *)
(* run of session_state with the roles exchanged.                          *)

MasterySession(user_info) ==
    select_tool([user_info |-> user_info,
                 tool_choice |-> "Note & Lesson Engine",
                 last_tool_choice |-> "Note & Lesson Engine"],
                "Mastery Engine")

\* the second session in the battle of the first node, after the n-th of its
\* runs: challenged, questions generated, answers submitted, victory drawn
RECURSIVE BattleOfSecondSession(_)
BattleOfSecondSession(n) ==
    IF n = 0
    THEN show_mock_test_generator_init(
             challenge_boss(Put(Put(load_course(MasterySession("user2"), ECON_101_GENOME),
                                    "selected_node_id", ECON_101_GENOME.nodes[1]),
                                "mastery_stage", "content_viewer"),
                            ECON_101_GENOME.nodes[1]))
    ELSE render_boss_battle(BattleOfSecondSession(n - 1),
                            [ok |-> n = 1, n |-> IF n = 1 THEN 10 ELSE 0],
                            7, IF n = 2 THEN "submit" ELSE "none")

WaitingSessions ==
    {MasterySession("user2"),
     load_course(MasterySession("user2"), ECON_101_GENOME),
     add_concept(MasterySession("user2"), UserGeneIds[1])}
        \cup {BattleOfSecondSession(n) : n \in 0..3}

InitTwoSessions ==
    /\ course_template = ECON_101_GENOME
    /\ session_state = MasterySession("user")
    /\ other_session \in WaitingSessions
    /\ user_data_file = NoFile
    /\ today_str = 1
    /\ script_run = NoRuns
    /\ user_secrets = NoRows
    /\ wrapper = NoCall
    /\ call = NoFunctionCall
    /\ last = Step("select_tool", "Mastery Engine")
    /\ passed = <<>>

NextTwoSessions ==
    \/ NextAnyGenome
    \/ render_course_selection_generate

SpecTwoSessions == InitTwoSessions /\ [][NextTwoSessions]_vars

-----------------------------------------------------------------------------
(* The MCQ form in detail.                                                 *)
(* In the specifications above an MCQ set is its size and the form submit  *)
(* draws the score; here a set is a list of questions, each with its       *)
(* options (key |-> text) and its answer key, the learner clicks one radio *)
(* item per question, and the score is computed as render_mcq_test does.   *)

\* number of questions of the MCQ sets drawn by InitMcqForm
MaxMcqQuestions == 2

\* the option keys, in the order of sorted(q['options'].items())
OptionKeys == <<"A", "B">>

OptionTexts == {"x", "y"}

McqQuestions ==
    [options : [Range(OptionKeys) -> OptionTexts], answer : Range(OptionKeys)]

McqSets == UNION {[1..n -> McqQuestions] : n \in 0..MaxMcqQuestions}

\* next(key for key, value in options if value == selected_option): st.radio
\* returns the text of the clicked item
key_of_selected_option(options, selected_option) ==
    LET i == CHOOSE i \in DOMAIN OptionKeys :
                 /\ options[OptionKeys[i]] = selected_option
                 /\ \A j \in 1..(i - 1) : options[OptionKeys[j]] # selected_option
    IN  OptionKeys[i]

\* the dict user_answers built by the form: clicked[i] is the key of the radio
\* item the learner clicked for the i-th question
form_user_answers(mcq_questions, clicked) ==
    [i \in DOMAIN mcq_questions |->
        key_of_selected_option(mcq_questions[i].options,
                               mcq_questions[i].options[clicked[i]])]

\* sum(1 for q in mcq_questions if user_answers.get(q['question_id']) == q['answer'])
mcq_score(mcq_questions, user_answers) ==
    Cardinality({i \in DOMAIN mcq_questions : user_answers[i] = mcq_questions[i].answer})

\* render_mcq_test(next_stage), "Submit Answers", on a detailed question set
render_mcq_test_form(ss, next_stage, clicked) ==
    LET mcq_questions == DictGet(ss["questions"], "mcq", <<>>)
        user_answers == form_user_answers(mcq_questions, clicked)
    IN  Put(Put(Put(ss, "user_answers", DictPut(ss["user_answers"], "mcq", user_answers)),
                "score", DictPut(ss["score"], "mcq", mcq_score(mcq_questions, user_answers))),
            "test_stage", next_stage)

mcq_form_submit ==
    /\ Frame
    /\ InMock /\ Stage = "mcq_test"
    /\ \E clicked \in [DOMAIN session_state["questions"]["mcq"] -> Range(OptionKeys)] :
         /\ session_state' = render_mcq_test_form(session_state, "mcq_results", clicked)
         /\ last' = [op |-> "render_mcq_test", arg |-> "mcq", clicked |-> clicked]
    /\ UNCHANGED passed

\* the MCQ test page of a Mock Test Generator session, for every MCQ set
InitMcqForm ==
    /\ course_template = ECON_101_GENOME
    /\ \E mcq_questions \in McqSets :
         session_state = [user_info |-> "user",
                          tool_choice |-> "Mock Test Generator",
                          last_tool_choice |-> "Mock Test Generator",
                          test_stage |-> "mcq_test",
                          syllabus |-> "SYLLABUS_1",
                          questions |-> [mcq |-> mcq_questions],
                          user_answers |-> EmptyDict,
                          score |-> EmptyDict,
                          feedback |-> EmptyDict]
    /\ last = Step("render_generating_questions", "generated")
    /\ wrapper = NoCall
    /\ call = NoFunctionCall
    /\ other_session = NoSession
    /\ user_data_file = NoFile
    /\ today_str = 1
    /\ script_run = NoRuns
    /\ user_secrets = NoRows
    /\ passed = <<>>

NextMcqForm == mcq_form_submit

SpecMcqForm == InitMcqForm /\ [][NextMcqForm]_vars

-----------------------------------------------------------------------------
(* The user data file: tier, usage counters and saved sessions             *)

\* the days on which the user works
MaxDay == 2

Days == 1..MaxDay

FREE_TIER_LIMIT == 1

PAID_TIER_DAILY_LIMIT == 3

\* last_analysis_date of default_data: None
NoDate == 0

default_data ==
    [exists |-> TRUE, sessions |-> <<>>, user_tier |-> "free", total_analyses |-> 0,
     last_analysis_date |-> NoDate, daily_analyses_count |-> 0]

\* load_user_data: the content of the file, the defaults when there is none
load_user_data(file) == IF file.exists THEN file ELSE default_data

\* an update that counts a paid analysis without looking at the date
update_user_usage_ignoring_date(user_data, today) ==
    IF user_data.user_tier = "free"
    THEN [user_data EXCEPT !.total_analyses = @ + 1]
    ELSE [user_data EXCEPT !.daily_analyses_count = @ + 1]

\* update_user_usage between its load and its save
update_user_usage(user_data, today) ==
    IF user_data.user_tier = "free"
    THEN [user_data EXCEPT !.total_analyses = @ + 1]
    ELSE IF user_data.user_tier = "paid"
    THEN IF user_data.last_analysis_date = today
         THEN [user_data EXCEPT !.daily_analyses_count = @ + 1]
         ELSE [user_data EXCEPT !.last_analysis_date = today,
                                !.daily_analyses_count = 1]
    ELSE user_data

\* check_user_access: can_proceed
check_user_access(user_data, today) ==
    IF user_data.user_tier = "free"
    THEN ~(user_data.total_analyses >= FREE_TIER_LIMIT)
    ELSE IF user_data.user_tier = "paid"
    THEN ~(/\ user_data.last_analysis_date = today
           /\ user_data.daily_analyses_count >= PAID_TIER_DAILY_LIMIT)
    ELSE TRUE

\* the files a user can have: none, a free user's, a paid user's who has
\* analysed on no day yet or on some day
UserDataFiles ==
    {NoFile}
    \cup {[default_data EXCEPT !.total_analyses = n] : n \in 0..FREE_TIER_LIMIT}
    \cup {[default_data EXCEPT !.user_tier = "paid", !.total_analyses = n] :
             n \in 0..FREE_TIER_LIMIT}
    \cup {[default_data EXCEPT !.user_tier = "paid", !.total_analyses = n,
                               !.last_analysis_date = d, !.daily_analyses_count = c] :
             n \in 0..FREE_TIER_LIMIT, d \in Days, c \in 1..PAID_TIER_DAILY_LIMIT}

-----------------------------------------------------------------------------
(* Note & Lesson Engine: upload, processing, workspace, synthesizing,      *)
(* results.  A chunk is its chunk_id and the number of words of its text;  *)
(* an outline is a list of entries (topic, relevant_chunks); the edited    *)
(* outline is the list of its stripped non-blank lines.                    *)

\* number of chunks of the pools a processing run may produce
MaxChunks == 2

\* number of entries of the outlines the service may return, and of lines of
\* the edited outline
MaxTopics == 2

PoolChunkIds == <<"c1", "c2", "c3">>

\* an id the service may put into relevant_chunks that no chunk has
UnknownChunkId == "c_unknown"

\* a text of no words, of exactly 10 words, of more than 10 words
WordCounts == {0, 10, 11}

ChunkPools ==
    UNION {{[i \in 1..n |-> [chunk_id |-> PoolChunkIds[i], words |-> w[i]]] :
               w \in [1..n -> WordCounts]} : n \in 0..MaxChunks}

\* "Supply" in "Supply and Demand" holds
TopicNames == {"Supply", "Supply and Demand"}

\* topic in original_topic, Python's substring test on str
IsSubstring(topic, original_topic) ==
    \/ topic = original_topic
    \/ topic = "Supply" /\ original_topic = "Supply and Demand"

RelevantChunkLists == {<<>>, <<"c1">>, <<"c1", "c2">>, <<UnknownChunkId>>}

OutlineEntries == [topic : TopicNames, relevant_chunks : RelevantChunkLists]

Outlines == UNION {[1..n -> OutlineEntries] : n \in 0..MaxTopics}

\* what the service's answer parses to in generate_content_outline: None (also
\* the retry wrapper's failure result), an object without "outline", or an
\* object with an "outline" list
OutlineResults ==
    {[kind |-> "None", outline |-> <<>>], [kind |-> "no outline", outline |-> <<>>]}
    \cup {[kind |-> "outline", outline |-> o] : o \in Outlines}

EditedOutlines == UNION {[1..n -> TopicNames] : n \in 0..MaxTopics}

\* a filter that also takes the texts of exactly 10 words
prompt_chunks_from_ten_words(all_chunks) ==
    {i \in DOMAIN all_chunks : all_chunks[i].words # 0 /\ all_chunks[i].words >= 10}

\* prompt_chunks of generate_content_outline
prompt_chunks(all_chunks) ==
    {i \in DOMAIN all_chunks : all_chunks[i].words # 0 /\ all_chunks[i].words > 10}

\* generate_content_outline(all_chunks): [called, result]; response is what
\* the service answers when it is called
generate_content_outline(all_chunks, response) ==
    IF prompt_chunks(all_chunks) = {}
    THEN [called |-> FALSE, result |-> [kind |-> "None", outline |-> <<>>]]
    ELSE [called |-> TRUE, result |-> response]

\* "\n".join([item.get('topic', '') for item in outline_data]), as lines
outline_topics(outline_data) == [i \in DOMAIN outline_data |-> outline_data[i].topic]

InNotes == Tool(session_state) = "Note & Lesson Engine"

CurrentState == session_state["current_state"]

\* show_upload_state, "Process Files" with files selected, for a user whom
\* check_user_access lets proceed (the paywall branch returns before the button)
show_upload_state ==
    /\ Frame
    /\ InNotes /\ CurrentState = "upload"
    /\ session_state' = Put(Put(session_state, "initial_files", "files"),
                            "current_state", "processing")
    /\ last' = Step("show_upload_state", "Process Files")
    /\ UNCHANGED passed

\* show_processing_state: the pool is what the extraction of the files gives
show_processing_state ==
    /\ Frame
    /\ InNotes /\ CurrentState = "processing"
    /\ \E all_chunks \in ChunkPools :
         session_state' = Put(Put(session_state, "all_chunks", all_chunks),
                              "current_state", "workspace")
    /\ last' = Step("show_processing_state", "")
    /\ UNCHANGED passed

\* show_workspace_state, "Generate / Regenerate Full Outline": the run stores
\* the outline and draws the text area with the topics of the stored outline
show_workspace_state_generate ==
    /\ Frame
    /\ InNotes /\ CurrentState = "workspace"
    \* without a pool st.session_state.all_chunks raises AttributeError
    /\ Has(session_state, "all_chunks")
    /\ \E response \in OutlineResults :
         LET outline_json == generate_content_outline(session_state["all_chunks"], response)
             s1 == IF outline_json.result.kind = "outline"
                   THEN Put(session_state, "outline_data", outline_json.result.outline)
                   ELSE session_state
             s2 == IF outline_json.result.kind = "outline" /\ s1["outline_data"] # <<>>
                   THEN Put(s1, "editable_outline", outline_topics(s1["outline_data"]))
                   ELSE s1
         IN  /\ session_state' = s2
             /\ last' = [op |-> "generate_content_outline",
                         arg |-> IF outline_json.result.kind = "outline"
                                 THEN "stored" ELSE "failed",
                         called |-> outline_json.called]
    /\ UNCHANGED passed

\* show_workspace_state: the learner edits the "Editable Outline" text area
show_workspace_state_edit ==
    /\ Frame
    /\ InNotes /\ CurrentState = "workspace"
    /\ Has(session_state, "outline_data") /\ session_state["outline_data"] # <<>>
    /\ \E lines \in EditedOutlines :
         session_state' = Put(session_state, "editable_outline", lines)
    /\ last' = Step("show_workspace_state", "edit")
    /\ UNCHANGED passed

\* show_workspace_state, "Synthesize Notes"
show_workspace_state_synthesize ==
    /\ Frame
    /\ InNotes /\ CurrentState = "workspace"
    /\ Has(session_state, "outline_data") /\ session_state["outline_data"] # <<>>
    /\ session_state' = Put(session_state, "current_state", "synthesizing")
    /\ last' = Step("show_workspace_state", "Synthesize Notes")
    /\ UNCHANGED passed

\* original_outline_map[topic]: a dict comprehension, the last entry of a
\* topic wins
original_outline_map(outline_data, topic) ==
    LET last_index == CHOOSE i \in DOMAIN outline_data :
                          /\ outline_data[i].topic = topic
                          /\ \A j \in DOMAIN outline_data :
                               outline_data[j].topic = topic => j <= i
    IN  outline_data[last_index].relevant_chunks

\* the position of a key in the iteration order of the dict: the index of the
\* topic's first entry
key_position(outline_data, topic) ==
    CHOOSE i \in DOMAIN outline_data :
        /\ outline_data[i].topic = topic
        /\ \A j \in 1..(i - 1) : outline_data[j].topic # topic

\* matched_chunks of show_synthesizing_state: the topic's own list or, when
\* that is missing or empty, the list of the first key that contains the topic
matched_chunks(outline_data, topic) ==
    LET keys == {outline_data[i].topic : i \in DOMAIN outline_data}
        direct == IF topic \in keys THEN original_outline_map(outline_data, topic) ELSE <<>>
        containing == {original_topic \in keys : IsSubstring(topic, original_topic)}
        first_containing ==
            CHOOSE original_topic \in containing :
                \A other \in containing :
                    key_position(outline_data, original_topic)
                       <= key_position(outline_data, other)
    IN  IF direct # <<>> THEN direct
        ELSE IF containing = {} THEN <<>>
        ELSE original_outline_map(outline_data, first_containing)

\* text_to_synthesize.strip() is not empty: the texts of the matched chunks
\* that are in the pool are joined with "\n\n---\n\n"
has_text_to_synthesize(all_chunks, chunk_ids) ==
    LET in_pool == {j \in DOMAIN chunk_ids :
                       \E i \in DOMAIN all_chunks : all_chunks[i].chunk_id = chunk_ids[j]}
    IN  \/ Cardinality(in_pool) >= 2
        \/ \E j \in in_pool : \E i \in DOMAIN all_chunks :
              all_chunks[i].chunk_id = chunk_ids[j] /\ all_chunks[i].words > 0

Placeholder == "Could not find source text for this topic."

\* the lines of the edited outline for which synthesize_note_block is called
synthesized_lines(ss) ==
    {i \in DOMAIN ss["editable_outline"] :
        has_text_to_synthesize(ss["all_chunks"],
                               matched_chunks(ss["outline_data"], ss["editable_outline"][i]))}

\* the loop of show_synthesizing_state; responses[i] is what
\* synthesize_note_block returns for line i: the text, or None on failure
synthesize_notes(ss, responses) ==
    LET topics == ss["editable_outline"]
    IN  [i \in DOMAIN topics |->
            [topic |-> topics[i],
             content |-> IF i \in synthesized_lines(ss) THEN responses[i] ELSE Placeholder,
             source_chunks |-> matched_chunks(ss["outline_data"], topics[i])]]

\* show_synthesizing_state
show_synthesizing_state ==
    /\ Frame
    /\ InNotes /\ CurrentState = "synthesizing"
    /\ \E responses \in [DOMAIN session_state["editable_outline"] -> {"text", "None"}] :
         session_state' = Put(Put(session_state, "final_notes",
                                  synthesize_notes(session_state, responses)),
                              "current_state", "results")
    /\ last' = [op |-> "show_synthesizing_state", arg |-> "",
                called |-> synthesized_lines(session_state)]
    /\ UNCHANGED passed

\* show_results_state, "Start New Session"
show_results_state_new_session ==
    /\ Frame
    /\ InNotes /\ CurrentState = "results"
    /\ session_state' = tool_routing(reset_session(session_state))
    /\ last' = Step("show_results_state", "Start New Session")
    /\ UNCHANGED passed

\* from the upload to the stored outline
NextOutline ==
    \/ show_upload_state
    \/ show_processing_state
    \/ show_workspace_state_generate

SpecOutline == Init /\ [][NextOutline]_vars

\* a session from the upload to the notes; the results page is left by
\* "Start New Session"
NextNotes ==
    \/ NextOutline
    \/ show_workspace_state_edit
    \/ show_workspace_state_synthesize
    \/ show_synthesizing_state
    \/ show_results_state_new_session

SpecNotes == Init /\ [][NextNotes]_vars

\* show_results_state, "Go to Workspace"
show_results_state_workspace ==
    /\ Frame
    /\ InNotes /\ CurrentState = "results"
    /\ session_state' = Put(session_state, "current_state", "workspace")
    /\ last' = Step("show_results_state", "Go to Workspace")
    /\ UNCHANGED passed

\* main, "View" of a saved session (line 1436), and the rerun: the
\* tool radio takes the tool_choice written by the handler, and lines
\* 1446-1448 reset the session again when last_tool_choice is another tool
main_view(ss, session) ==
    LET s1 == Put(Put(Put(Put(reset_session(ss), "tool_choice", "Note & Lesson Engine"),
                          "final_notes", session.notes),
                      "current_state", "results"),
                  "messages", <<>>)
    IN  IF s1["last_tool_choice"] # s1["tool_choice"]
        THEN select_tool(s1, s1["tool_choice"])
        ELSE s1

main_history_view ==
    /\ Frame
    /\ \E i \in DOMAIN load_user_data(user_data_file).sessions :
         session_state' = main_view(session_state, load_user_data(user_data_file).sessions[i])
    /\ last' = Step("main", "View")
    /\ passed' = <<>>

\* the file of a user who saved one session of notes in an earlier visit
FileWithHistory ==
    [default_data EXCEPT
        !.total_analyses = 1,
        !.sessions = <<[id |-> "uuid4", title |-> "topic",
                        notes |-> <<[topic |-> "topic", content |-> "text",
                                     source_chunks |-> <<>>]>>]>>]

\* a new browser session of that user
InitHistory ==
    /\ course_template = ECON_101_GENOME
    /\ session_state = tool_routing([user_info |-> "user",
                                     tool_choice |-> "Note & Lesson Engine",
                                     last_tool_choice |-> "Note & Lesson Engine"])
    /\ last = Step("main", "")
    /\ wrapper = NoCall
    /\ call = NoFunctionCall
    /\ other_session = NoSession
    /\ user_data_file = FileWithHistory
    /\ today_str = 1
    /\ script_run = NoRuns
    /\ user_secrets = NoRows
    /\ passed = <<>>

\* the outline and the synthesis are left out: they keep the pool as it is
NextHistory ==
    \/ show_upload_state
    \/ show_processing_state
    \/ show_results_state_new_session
    \/ show_results_state_workspace
    \/ main_history_view
    \/ main_select_tool

SpecHistory == InitHistory /\ [][NextHistory]_vars

\* the sessions in which reset_session is called: the Note & Lesson Engine
\* up to its results page with "Start New Session", the tool radio of main,
\* and the first page of the Mock Test Generator and of the Mastery Engine
NextReset ==
    \/ NextOutline
    \/ show_workspace_state_synthesize
    \/ show_synthesizing_state
    \/ show_results_state_new_session
    \/ main_select_tool
    \/ render_syllabus_input
    \/ render_course_selection_econ

SpecReset == Init /\ [][NextReset]_vars

-----------------------------------------------------------------------------
(* The retry wrapper.                                                      *)
(* gemini_api_call_with_retry(func) is followed step by step in one call:  *)
(* a step is one pass of the try statement (func is invoked and returns or *)
(* raises, and the except clause that catches it runs), or one time.sleep  *)
(* with the test of the while condition that follows it.                   *)

MAX_RETRIES == 3

\* the seconds of a 'retry_delay { seconds: N }' part of the error's text
SuggestedSeconds == {0, 5, 30}

\* exceptions.ResourceExhausted; retry_delay is the groups of
\* re.search(r'retry_delay {\s*seconds: (\d+)\s*}', str(e)): <<>> when no match
ResourceExhausted ==
    [type : {"ResourceExhausted"},
     retry_delay : {<<>>} \cup {<<seconds>> : seconds \in SuggestedSeconds}]

\* any other Exception
OtherException == [type |-> "Exception", retry_delay |-> <<>>]

\* what one invocation of func does: it returns (a value, or None as
\* generate_content_outline does without a usable chunk) or it raises
CallOutcomes ==
    [kind : {"return"}, value : {"value", "None"}]
        \cup [kind : {"raise"}, e : ResourceExhausted \cup {OtherException}]

\* wrapper(*args, **kwargs) at its entry: retries = 0, delay = 1.  calls,
\* raised and slept are history: the invocations of func, the exceptions it
\* raised and the arguments of time.sleep, in order
wrapper_entry ==
    [pc |-> "while", retries |-> 0, delay |-> 1, wait_time |-> 0, result |-> "",
     calls |-> 0, raised |-> <<>>, slept |-> <<>>]

\* while retries < MAX_RETRIES
while_condition(retries) == retries < MAX_RETRIES

retries_exhausted_one_late(retries) == retries > MAX_RETRIES

\* if retries >= MAX_RETRIES
retries_exhausted(retries) == retries >= MAX_RETRIES

wait_time_of_backoff_only(e, delay, retries) == delay * (2 ^ retries)

\* wait_time = int(match.group(1)) + delay if match else delay * (2 ** retries)
wait_time_of(e, delay, retries) ==
    IF e.retry_delay # <<>> THEN e.retry_delay[1] + delay ELSE delay * (2 ^ retries)

\* return result
wrapper_return(w, result) == [w EXCEPT !.pc = "returned", !.result = result]

\* except exceptions.ResourceExhausted as e
except_ResourceExhausted(w, e) ==
    LET retries == w.retries + 1
        caught == [w EXCEPT !.retries = retries, !.raised = Append(@, e)]
    IN  IF retries_exhausted(retries)
        THEN wrapper_return(caught, "None")
        ELSE [caught EXCEPT !.pc = "sleep",
                            !.wait_time = wait_time_of(e, w.delay, retries)]

except_Exception_retrying(w, e) == except_ResourceExhausted(w, e)

\* except Exception as e
except_Exception(w, e) == wrapper_return([w EXCEPT !.raised = Append(@, e)], "None")

\* try: return func(*args, **kwargs), with the except clause that catches
try_func(w, outcome) ==
    LET called == [w EXCEPT !.calls = @ + 1]
    IN  IF outcome.kind = "return" THEN wrapper_return(called, outcome.value)
        ELSE IF outcome.e.type = "ResourceExhausted"
             THEN except_ResourceExhausted(called, outcome.e)
             ELSE except_Exception(called, outcome.e)

\* one pass of the loop body
wrapper_call ==
    /\ wrapper.pc = "while"
    /\ while_condition(wrapper.retries)
    /\ \E outcome \in CallOutcomes : wrapper' = try_func(wrapper, outcome)
    /\ last' = Step("gemini_api_call_with_retry", "try")
    /\ UNCHANGED <<session_state, course_template, call, other_session, user_data_file, today_str, script_run, user_secrets, passed>>

\* time.sleep(wait_time), then the while condition; when it is false the loop
\* ends and the function returns None (with the returns of the except clause,
\* retries never reaches MAX_RETRIES here)
wrapper_sleep ==
    /\ wrapper.pc = "sleep"
    /\ LET slept == [wrapper EXCEPT !.slept = Append(@, wrapper.wait_time),
                                    !.wait_time = 0]
       IN  wrapper' = IF while_condition(wrapper.retries)
                      THEN [slept EXCEPT !.pc = "while"]
                      ELSE wrapper_return(slept, "None")
    /\ last' = Step("gemini_api_call_with_retry", "sleep")
    /\ UNCHANGED <<session_state, course_template, call, other_session, user_data_file, today_str, script_run, user_secrets, passed>>

\* one call of a wrapped function, for every sequence of outcomes of func
InitRetry ==
    /\ course_template = ECON_101_GENOME
    /\ session_state = tool_routing([user_info |-> "user",
                                     tool_choice |-> "Note & Lesson Engine",
                                     last_tool_choice |-> "Note & Lesson Engine"])
    /\ wrapper = wrapper_entry
    /\ call = NoFunctionCall
    /\ other_session = NoSession
    /\ user_data_file = NoFile
    /\ today_str = 1
    /\ script_run = NoRuns
    /\ user_secrets = NoRows
    /\ last = Step("main", "")
    /\ passed = <<>>

NextRetry ==
    \/ wrapper_call
    \/ wrapper_sleep

\* the script thread runs on: an invocation of func ends (it returns or it
\* raises) and a sleep ends
SpecRetry == InitRetry /\ [][NextRetry]_vars /\ WF_vars(NextRetry)

-----------------------------------------------------------------------------
(* resilient_json_parser.                                                  *)
(* A response text is a sequence of tokens: the braces, a fence of three   *)
(* backticks (FENCE), the word json, a whitespace character, "k" for the   *)
(* members of an object ("key": value, ...) and "p" for any other prose. A *)
(* well-formed record is what json.loads accepts between two braces: {}    *)
(* or {k}, with whitespace anywhere inside.                                *)

\* length of the response texts drawn by InitParser
MaxTextLen == 5

Tokens == {"{", "}", "FENCE", "json", " ", "k", "p"}

ResponseTexts == UNION {[1..n -> Tokens] : n \in 0..MaxTextLen}

\* text[i], or "" past the end of the text
At(text, i) == IF i \in DOMAIN text THEN text[i] ELSE ""

Slice(text, from, to) == [i \in 1..(to - from + 1) |-> text[from + i - 1]]

NonSpace(text) == SelectSeq(text, LAMBDA t : t # " ")

\* \s* from position i: the position after the whitespace
RECURSIVE skip_space(_, _)
skip_space(text, i) == IF At(text, i) = " " THEN skip_space(text, i + 1) ELSE i

\* json.loads(s) returns for a well-formed record and raises
\* json.JSONDecodeError for anything else between braces
well_formed(sub) == NonSpace(sub) \in {<<"{", "}">>, <<"{", "k", "}">>}

json_loads(sub) == [kind |-> "record", value |-> NonSpace(sub)]

None == [kind |-> "None", value |-> <<>>]

\* re.search(r'FENCE(json)?\s*(\{.*?\})\s*FENCE', json_string, re.DOTALL),
\* FENCE standing for the three backticks of the pattern: the
\* matches <<i, j, e>> with the opening fence at i and group 2 from j to e
fence_matches(text) ==
    {m \in (DOMAIN text) \X (DOMAIN text) \X (DOMAIN text) :
        /\ text[m[1]] = "FENCE"
        /\ m[2] = skip_space(text, IF At(text, m[1] + 1) = "json" THEN m[1] + 2 ELSE m[1] + 1)
        /\ text[m[2]] = "{"
        /\ m[3] > m[2] /\ text[m[3]] = "}"
        /\ At(text, skip_space(text, m[3] + 1)) = "FENCE"}

\* the match re.search returns: the leftmost opening fence, and from it the
\* shortest group 2 (.*? is lazy)
fence_match(text) ==
    CHOOSE m \in fence_matches(text) :
        \A o \in fence_matches(text) : m[1] < o[1] \/ (m[1] = o[1] /\ m[3] <= o[3])

\* re.search(r'\{.*\}', json_string, re.DOTALL): from the first opening brace
\* to the last closing brace (.* is greedy)
brace_matches(text) ==
    {m \in (DOMAIN text) \X (DOMAIN text) :
        /\ text[m[1]] = "{" /\ text[m[2]] = "}" /\ m[1] < m[2]
        /\ \A i \in DOMAIN text : text[i] = "{" => m[1] <= i
        /\ \A i \in DOMAIN text : text[i] = "}" => i <= m[2]}

brace_match(text) == CHOOSE m \in brace_matches(text) : TRUE

\* json.loads of the matched group; except json.JSONDecodeError: return None
loads_or_None(sub) == IF well_formed(sub) THEN json_loads(sub) ELSE None

resilient_json_parser(json_string) ==
    IF fence_matches(json_string) # {}
    THEN LET m == fence_match(json_string)
         IN  loads_or_None(Slice(json_string, m[2], m[3]))
    ELSE IF brace_matches(json_string) # {}
    THEN LET m == brace_match(json_string)
         IN  loads_or_None(Slice(json_string, m[1], m[2]))
    ELSE None

resilient_json_parser_call ==
    /\ call.fn = "resilient_json_parser" /\ ~call.returned
    /\ call' = [call EXCEPT !.returned = TRUE,
                            !.result = resilient_json_parser(call.args[1])]
    /\ last' = Step("resilient_json_parser", "")
    /\ UNCHANGED <<session_state, course_template, wrapper, other_session,
                 user_data_file, today_str, script_run, user_secrets, passed>>

\* a call of resilient_json_parser, for every response text
InitParser ==
    /\ course_template = ECON_101_GENOME
    /\ session_state = tool_routing([user_info |-> "user",
                                     tool_choice |-> "Note & Lesson Engine",
                                     last_tool_choice |-> "Note & Lesson Engine"])
    /\ wrapper = NoCall
    /\ other_session = NoSession
    /\ user_data_file = NoFile
    /\ today_str = 1
    /\ script_run = NoRuns
    /\ user_secrets = NoRows
    /\ \E json_string \in ResponseTexts :
         call = [fn |-> "resilient_json_parser", args |-> <<json_string>>,
                 returned |-> FALSE, result |-> <<>>]
    /\ last = Step("main", "")
    /\ passed = <<>>

NextParser == resilient_json_parser_call

SpecParser == InitParser /\ [][NextParser]_vars

-----------------------------------------------------------------------------
(* chunk_text.                                                             *)
(* A text is the sequence of its runs: 0 for a run of whitespace, a        *)
(* positive number for a word (a run of other characters); no two runs of  *)
(* the same kind are adjacent.  The empty sequence is the empty string.    *)

\* number of runs of the texts drawn by InitChunk
MaxTextRuns == 7

\* the chunk sizes drawn by InitChunk are 1..MaxChunkSize, the overlaps 0..MaxChunkSize
MaxChunkSize == 3

CHUNK_SIZE == 500

CHUNK_OVERLAP == 50

Words == {1, 2}

SourceIds == {"pdf:a.pdf", "transcript:a.mp3"}

Texts ==
    {text \in UNION {[1..n -> Words \cup {0}] : n \in 0..MaxTextRuns} :
        \A i \in 1..(Len(text) - 1) : (text[i] = 0) # (text[i + 1] = 0)}

split_keeping_whitespace(text) == text

\* text.split()
split(text) == SelectSeq(text, LAMBDA run : run # 0)

\* " ".join(chunk_words)
join(chunk_words) ==
    [i \in 1..(2 * Len(chunk_words) - 1) |->
        IF i % 2 = 1 THEN chunk_words[(i + 1) \div 2] ELSE 0]

\* chunk_size - overlap
chunk_step(chunk_size, overlap) == chunk_size - overlap

\* list(range(0, stop, step)) for step # 0
range_from_zero(stop, step) ==
    IF step > 0 THEN [k \in 1..((stop + step - 1) \div step) |-> (k - 1) * step]
    ELSE <<>>

\* words[i:i + chunk_size], i counted from 0
words_slice(words, i, chunk_size) ==
    [j \in 1..(IF i + chunk_size <= Len(words) THEN chunk_size ELSE Len(words) - i) |->
        words[i + j]]

chunk_hash_of_call(chunk) == [md5 |-> <<chunk, Len(call.result)>>]

\* hashlib.md5(chunk_text.encode()).hexdigest()[:8]: a digest of the chunk's
\* text and of nothing else; two texts are taken to have different digests
chunk_hash(chunk) == [md5 |-> chunk]

\* chunk_text(text, source_id, chunk_size, overlap); range() raises
\* ValueError for a step of 0
chunk_text(text, source_id, chunk_size, overlap) ==
    IF text = <<>> THEN [raised |-> "", chunks |-> <<>>]
    ELSE LET words == split(text)
             step == chunk_step(chunk_size, overlap)
             starts == range_from_zero(Len(words), step)
         IN  IF step = 0 THEN [raised |-> "ValueError", chunks |-> <<>>]
             ELSE [raised |-> "",
                   chunks |-> [k \in DOMAIN starts |->
                       LET chunk == join(words_slice(words, starts[k], chunk_size))
                       IN  [chunk_id |-> [source_id |-> source_id,
                                          chunk |-> starts[k] \div step,
                                          hash |-> chunk_hash(chunk)],
                            text |-> chunk]]]

\* one call of chunk_text with the arguments of the frame; call.result is the
\* list of what the calls made so far returned
chunk_text_call ==
    /\ call.fn = "chunk_text" /\ Len(call.result) < 2
    /\ call' = [call EXCEPT !.returned = TRUE,
                            !.result = Append(@, chunk_text(call.args[1], call.args[2],
                                                            call.args[3], call.args[4]))]
    /\ last' = Step("chunk_text", "")
    /\ UNCHANGED <<session_state, course_template, wrapper, other_session,
                 user_data_file, today_str, script_run, user_secrets, passed>>

\* calls of chunk_text, for every text, source id, chunk size and overlap
InitChunk ==
    /\ course_template = ECON_101_GENOME
    /\ session_state = tool_routing([user_info |-> "user",
                                     tool_choice |-> "Note & Lesson Engine",
                                     last_tool_choice |-> "Note & Lesson Engine"])
    /\ wrapper = NoCall
    /\ other_session = NoSession
    /\ user_data_file = NoFile
    /\ today_str = 1
    /\ script_run = NoRuns
    /\ user_secrets = NoRows
    /\ \E text \in Texts, source_id \in SourceIds,
          chunk_size \in 1..MaxChunkSize, overlap \in 0..MaxChunkSize :
         call = [fn |-> "chunk_text", args |-> <<text, source_id, chunk_size, overlap>>,
                 returned |-> FALSE, result |-> <<>>]
    /\ last = Step("main", "")
    /\ passed = <<>>

NextChunk == chunk_text_call

SpecChunk == InitChunk /\ [][NextChunk]_vars

-----------------------------------------------------------------------------
(* show_processing_state in detail.                                        *)
(* Above, a processing run is one step that draws the chunk pool.  Here    *)
(* the run is followed task by task: every uploaded file is a task of the  *)
(* thread pool, the tasks finish in any order, as_completed yields each    *)
(* future when it is done and the run appends its result to results; the   *)
(* session is written after the loop.  update_user_usage (lines 752-755)   *)
(* writes the usage file and is left out.                                  *)

\* number of uploaded files of the runs drawn by InitProcessing
MaxFiles == 3

FileNames == <<"a.pdf", "b.pdf", "c.pdf", "d.pdf">>

\* what the extraction of one file comes to: a text that chunk_text cuts
\* into 1 or 2 chunks, or an exception
Extractions == {"1 chunk", "2 chunks", "Exception"}

UploadedFiles ==
    UNION {[1..n -> Extractions] : n \in 1..MaxFiles}

\* source_id = f"{source_type}:{file.name}", i the position of the file in
\* initial_files; call.args[2][i] holds the file's name, the source_type its
\* MIME type gives (line 745) and the text its extraction yields
source_id_of(i) == <<call.args[2][i].source_type, call.args[2][i].name>>

\* process_source(file, source_type): the dict it returns; every Exception
\* is caught and returned as an error result
\* An image gives one chunk with the id f"{source_id}::chunk_0" (line 326);
\* the other types go through chunk_text, whose ids carry the digest of the
\* chunk's text (line 302).  future is the position of the file whose task
\* returned the dict.
process_source(i, extraction) ==
    IF extraction = "Exception"
    THEN [status |-> "error", source_id |-> source_id_of(i), future |-> i,
          chunks |-> <<>>, reason |-> "str(e)"]
    ELSE IF call.args[2][i].source_type = "image"
    THEN [status |-> "success", source_id |-> source_id_of(i), future |-> i,
          chunks |-> <<[chunk_id |-> <<source_id_of(i), 0>>, words |-> 11]>>,
          reason |-> ""]
    ELSE [status |-> "success", source_id |-> source_id_of(i), future |-> i,
          chunks |-> [k \in 1..(IF extraction = "1 chunk" THEN 1 ELSE 2) |->
                         [chunk_id |-> <<source_id_of(i), k - 1,
                                         chunk_hash(<<call.args[2][i].text, k - 1>>)>>,
                          words |-> 11]],
          reason |-> ""]

\* [c for r in results if r and r['status'] == 'success' for c in r['chunks']]
RECURSIVE success_chunks(_)
success_chunks(results) ==
    IF results = <<>> THEN <<>>
    ELSE (IF Head(results).status = "success" THEN Head(results).chunks ELSE <<>>)
             \o success_chunks(Tail(results))

extraction_failures_first_only(results) ==
    LET errors == SelectSeq(results, LAMBDA r : r.status = "error")
    IN  IF errors = <<>> THEN <<>> ELSE <<Head(errors)>>

\* [r for r in results if r and r['status'] == 'error']
extraction_failures_of(results) == SelectSeq(results, LAMBDA r : r.status = "error")

\* the files whose future the loop over as_completed has been given
Completed == {call.result[j].future : j \in DOMAIN call.result}

InProcessingRun == call.fn = "show_processing_state" /\ ~call.returned

\* a task finishes and as_completed yields it: results.append(future.result())
process_source_completes ==
    /\ InProcessingRun
    /\ \E i \in DOMAIN call.args[1] :
         /\ i \notin Completed
         /\ call' = [call EXCEPT !.result = Append(@, process_source(i, call.args[1][i]))]
    /\ last' = Step("process_source", "")
    /\ UNCHANGED <<session_state, course_template, wrapper, other_session,
                 user_data_file, today_str, script_run, user_secrets, passed>>

\* after the last future: all_chunks, extraction_failures, current_state
show_processing_state_collect ==
    /\ InProcessingRun
    /\ Len(call.result) = Len(call.args[1])
    /\ session_state' =
         Put(Put(Put(session_state, "all_chunks", success_chunks(call.result)),
                 "extraction_failures", extraction_failures_of(call.result)),
             "current_state", "workspace")
    /\ call' = [call EXCEPT !.returned = TRUE]
    /\ last' = Step("show_processing_state", "")
    /\ user_data_file' =
         IF \E j \in DOMAIN call.result : call.result[j].status = "success"
         THEN update_user_usage(load_user_data(user_data_file), today_str)
         ELSE user_data_file
    /\ UNCHANGED <<course_template, wrapper, other_session, today_str, script_run, user_secrets, passed>>

\* a processing run, for every list of uploaded files
InitProcessing ==
    /\ course_template = ECON_101_GENOME
    /\ session_state = Put(Put(tool_routing([user_info |-> "user",
                                             tool_choice |-> "Note & Lesson Engine",
                                             last_tool_choice |-> "Note & Lesson Engine"]),
                               "initial_files", "files"),
                           "current_state", "processing")
    /\ wrapper = NoCall
    /\ other_session = NoSession
    /\ today_str \in Days
    /\ user_data_file \in {f \in UserDataFiles : /\ load_user_data(f).last_analysis_date <= today_str
                                                /\ check_user_access(load_user_data(f), today_str)}
    /\ script_run = NoRuns
    /\ user_secrets = NoRows
    /\ \E files \in UploadedFiles :
         call = [fn |-> "show_processing_state",
                 args |-> <<files, [i \in DOMAIN files |->
                                      [name |-> FileNames[i], source_type |-> "pdf",
                                       text |-> i]]>>,
                 returned |-> FALSE, result |-> <<>>]
    /\ last = Step("show_upload_state", "Process Files")
    /\ passed = <<>>

NextProcessing ==
    \/ process_source_completes
    \/ show_processing_state_collect

SpecProcessing == InitProcessing /\ [][NextProcessing]_vars

\* Uploads whose names may coincide.  st.file_uploader returns one
\* UploadedFile per selected file and does not compare their names.
MaxUploads == 2

UploadNames == {"a", "b"}

SourceTypes == {"transcript", "image", "pdf"}

UploadTexts == {1, 2}

InitUploads ==
    /\ course_template = ECON_101_GENOME
    /\ session_state = Put(Put(tool_routing([user_info |-> "user",
                                             tool_choice |-> "Note & Lesson Engine",
                                             last_tool_choice |-> "Note & Lesson Engine"]),
                               "initial_files", "files"),
                           "current_state", "processing")
    /\ wrapper = NoCall
    /\ other_session = NoSession
    /\ today_str = 1
    /\ user_data_file = NoFile
    /\ script_run = NoRuns
    /\ user_secrets = NoRows
    /\ \E n \in 1..MaxUploads :
         \E files \in [1..n -> Extractions],
            uploads \in [1..n -> [name : UploadNames, source_type : SourceTypes,
                                  text : UploadTexts]] :
           call = [fn |-> "show_processing_state", args |-> <<files, uploads>>,
                   returned |-> FALSE, result |-> <<>>]
    /\ last = Step("show_upload_state", "Process Files")
    /\ passed = <<>>

SpecUploads == InitUploads /\ [][NextProcessing]_vars

-----------------------------------------------------------------------------
(* The user data file under several sessions of one user.                  *)
(* Streamlit runs the script of every session in a thread of its own, and  *)
(* the sessions of one user share the file get_user_data_path(user_id).    *)
(* Every operation on the file is load_user_data, a change of the loaded   *)
(* dict, and save_user_data, with no lock: the load and the save are two   *)
(* steps here, and the steps of the other sessions fall between them.      *)
(* script_run[s] is the run of session s: its current_state, the function  *)
(* that has loaded the file and not yet saved it (at, with arg), and the   *)
(* dict that function holds (user_data).  last.serial is the file that the *)
(* operations completed so far give when they run one after the other, in  *)
(* the order of their saves.                                               *)

MaxSessions == 2

\* the processing runs and the syntheses followed in one session
MaxRuns == 1

MaxSavedSessions == 1

IdleRun == [current_state |-> "upload", at |-> "", arg |-> <<>>, user_data |-> NoFile,
            runs |-> 0, saved |-> 0]

Idle(s) == script_run[s].at = ""

\* the dict an operation saves, from the dict it loaded
operation(at, arg, user_data, today) ==
    CASE at = "update_user_usage" -> update_user_usage(user_data, today)
      [] at = "save_session_to_history" ->
            [user_data EXCEPT !.sessions = <<[id |-> arg, title |-> "topic"]>> \o @]
      [] at = "show_paywall" -> [user_data EXCEPT !.user_tier = "paid"]
      [] at = "main" /\ arg[1] = "Save" ->
            [user_data EXCEPT !.sessions =
                [i \in DOMAIN @ |-> IF @[i].id = arg[2]
                                    THEN [@[i] EXCEPT !.title = "new_title"] ELSE @[i]]]
      [] at = "main" /\ arg[1] = "Delete" ->
            [user_data EXCEPT !.sessions = SelectSeq(@, LAMBDA x : x.id # arg[2])]
      [] OTHER -> user_data

\* a function loads the file and changes the dict it holds
loads(s, at, arg) ==
    script_run' = [script_run EXCEPT ![s].at = at, ![s].arg = <<arg, today_str>>,
                      ![s].user_data = operation(at, arg, load_user_data(user_data_file),
                                                 today_str)]

FileFrame == UNCHANGED <<session_state, course_template, wrapper, call, other_session,
                         today_str, user_secrets, passed>>

\* show_upload_state: check_user_access lets the user proceed, "Process Files"
show_upload_state_access(s) ==
    /\ Idle(s) /\ script_run[s].current_state = "upload"
    /\ script_run[s].runs < MaxRuns
    /\ check_user_access(load_user_data(user_data_file), today_str)
    /\ script_run' = [script_run EXCEPT ![s].current_state = "processing",
                                        ![s].runs = @ + 1]
    /\ last' = [last EXCEPT !.op = "show_upload_state", !.arg = s]
    /\ UNCHANGED user_data_file /\ FileFrame

\* show_upload_state: the limit is reached, the paywall is shown, "I have
\* paid!" (lines 253-262): the load of show_paywall
show_paywall_load(s) ==
    /\ Idle(s) /\ script_run[s].current_state = "upload"
    /\ ~check_user_access(load_user_data(user_data_file), today_str)
    /\ loads(s, "show_paywall", "")
    /\ last' = [last EXCEPT !.op = "show_paywall", !.arg = s]
    /\ UNCHANGED user_data_file /\ FileFrame

\* show_processing_state: the extraction has ended; with no success the run
\* goes on to the workspace, with one update_user_usage loads the file
show_processing_state_usage(s) ==
    /\ Idle(s) /\ script_run[s].current_state = "processing"
    /\ \E any_success \in BOOLEAN :
         IF any_success
         THEN loads(s, "update_user_usage", "")
         ELSE script_run' = [script_run EXCEPT ![s].current_state = "workspace"]
    /\ last' = [last EXCEPT !.op = "show_processing_state", !.arg = s]
    /\ UNCHANGED user_data_file /\ FileFrame

\* show_synthesizing_state with notes to save: the load of
\* save_session_to_history; the id stands for the uuid4 of the new session
show_synthesizing_state_history(s) ==
    /\ Idle(s) /\ script_run[s].current_state = "workspace"
    /\ script_run[s].saved < MaxSavedSessions
    /\ loads(s, "save_session_to_history", <<s, script_run[s].saved>>)
    /\ last' = [last EXCEPT !.op = "show_synthesizing_state", !.arg = s]
    /\ UNCHANGED user_data_file /\ FileFrame

\* main: the sidebar lists the sessions of the file loaded at line 1399;
\* "Save" of an edited title (line 1428) or "Delete" (line 1440)
main_history_load(s) ==
    /\ Idle(s) /\ script_run[s].current_state \in {"upload", "workspace", "results"}
    /\ \E i \in DOMAIN load_user_data(user_data_file).sessions, button \in {"Save", "Delete"} :
         loads(s, "main", <<button, load_user_data(user_data_file).sessions[i].id>>)
    /\ last' = [last EXCEPT !.op = "main", !.arg = s]
    /\ UNCHANGED user_data_file /\ FileFrame

\* save_user_data: the function that loaded the file writes its dict, and
\* the run goes on to where that function leads
save_user_data(s) ==
    /\ ~Idle(s)
    /\ user_data_file' = script_run[s].user_data
    /\ LET at == script_run[s].at
       IN  script_run' =
             [script_run EXCEPT
                ![s].at = "", ![s].arg = <<>>, ![s].user_data = NoFile,
                ![s].saved = IF at = "save_session_to_history" THEN @ + 1 ELSE @,
                ![s].current_state =
                    CASE at = "update_user_usage" -> "workspace"
                      [] at = "save_session_to_history" -> "results"
                      [] OTHER -> @]
    /\ last' = [op |-> "save_user_data", arg |-> s,
                serial |-> operation(script_run[s].at, script_run[s].arg[1],
                                     last.serial, script_run[s].arg[2])]
    /\ FileFrame

\* "Start New Session" (line 832), or another tool and back (lines
\* 1446-1448): reset_session, and the Note & Lesson Engine starts at upload
reset_session_run(s) ==
    /\ Idle(s) /\ script_run[s].current_state \in {"workspace", "results"}
    /\ script_run' = [script_run EXCEPT ![s].current_state = "upload"]
    /\ last' = [last EXCEPT !.op = "reset_session", !.arg = s]
    /\ UNCHANGED user_data_file /\ FileFrame

InitUserData ==
    /\ course_template = ECON_101_GENOME
    /\ session_state = NoSession
    /\ wrapper = NoCall
    /\ call = NoFunctionCall
    /\ other_session = NoSession
    /\ today_str = 1
    /\ user_data_file \in {f \in UserDataFiles : load_user_data(f).last_analysis_date <= 1}
    /\ script_run = [s \in 1..MaxSessions |-> IdleRun]
    /\ user_secrets = NoRows
    /\ last = [op |-> "main", arg |-> "", serial |-> load_user_data(user_data_file)]
    /\ passed = <<>>

NextUserData ==
    \/ \E s \in DOMAIN script_run : show_upload_state_access(s)
    \/ \E s \in DOMAIN script_run : show_paywall_load(s)
    \/ \E s \in DOMAIN script_run : show_processing_state_usage(s)
    \/ \E s \in DOMAIN script_run : show_synthesizing_state_history(s)
    \/ \E s \in DOMAIN script_run : main_history_load(s)
    \/ \E s \in DOMAIN script_run : save_user_data(s)
    \/ \E s \in DOMAIN script_run : reset_session_run(s)

SpecUserData == InitUserData /\ [][NextUserData]_vars

-----------------------------------------------------------------------------
(* The login app (src/vekkam/factory/login_app.py).                        *)
(* A step is one run of main in a browser session: its inputs are the      *)
(* query parameters code and state of the URL the browser requests, and    *)
(* the API-key form when the run before drew it.  The callback URL is      *)
(* built by whoever sends the browser to the app, so every pair of a code  *)
(* and a state is an input.  last keeps the inputs of the run and the page *)
(* it drew.                                                                *)

\* the state value get_auth_url puts into the authorization URL
STATE_SECRET == "STATE_SECRET"

\* params.get("state", [None])[0]
States == {"None", STATE_SECRET, "forged"}

Emails == {"a@x", "b@x"}

\* params.get("code", [None])[0]: none, an authorization code Google issued
\* for one of the accounts, or a code the token endpoint rejects
Codes == {"None", "code a@x", "code b@x", "rejected"}

ApiKeys == {"key 1", "key 2"}

\* exchange_code_for_userinfo: the userinfo, or an exception of
\* raise_for_status
exchange_code_for_userinfo(code) ==
    CASE code = "code a@x" -> [raised |-> FALSE, email |-> "a@x"]
      [] code = "code b@x" -> [raised |-> FALSE, email |-> "b@x"]
      [] OTHER -> [raised |-> TRUE, email |-> ""]

\* main, lines 95-114: the session after the sign-in block, and the page on
\* which st.stop() ended the run ("" when the run goes on)
sign_in(ss, code, state) ==
    IF Has(ss, "user_email") THEN [ss |-> ss, page |-> ""]
    ELSE IF code # "None"
    THEN LET user_data == exchange_code_for_userinfo(code)
         IN  IF user_data.raised
             THEN [ss |-> ss, page |-> "Google login failed"]
             ELSE [ss |-> Put(ss, "user_email", user_data.email), page |-> ""]
    ELSE [ss |-> ss, page |-> "Please sign in"]

\* email_exists
email_exists(email) == email \in DOMAIN user_secrets

\* the API-key form can be submitted when the run before drew it
FormDrawn == last.op = "login_app.main" /\ last.page \in {"apikey form", "saved"}

\* one run of main
login_app_main ==
    /\ \E code \in Codes, state \in States, api_key \in ApiKeys,
          submit \in (IF FormDrawn THEN BOOLEAN ELSE {FALSE}) :
         LET signed == sign_in(session_state, code, state)
             user_email == signed.ss["user_email"]
         IN  /\ session_state' = signed.ss
             /\ IF signed.page # ""
                THEN /\ UNCHANGED user_secrets
                     /\ last' = [op |-> "login_app.main", code |-> code, state |-> state,
                                 page |-> signed.page]
                ELSE IF email_exists(user_email)
                THEN /\ UNCHANGED user_secrets
                     /\ last' = [op |-> "login_app.main", code |-> code, state |-> state,
                                 page |-> "Go to Lectures Dashboard"]
                ELSE IF submit
                THEN /\ user_secrets' = Put(user_secrets, user_email, api_key)
                     /\ last' = [op |-> "login_app.main", code |-> code, state |-> state,
                                 page |-> "saved"]
                ELSE /\ UNCHANGED user_secrets
                     /\ last' = [op |-> "login_app.main", code |-> code, state |-> state,
                                 page |-> "apikey form"]
    /\ UNCHANGED <<course_template, wrapper, call, other_session, user_data_file,
                   today_str, script_run, passed>>

\* the browser opens the app in a new session: st.session_state is empty
login_app_new_session ==
    /\ session_state' = EmptyDict
    /\ last' = [op |-> "new session", code |-> "None", state |-> "None", page |-> ""]
    /\ UNCHANGED <<course_template, wrapper, call, other_session, user_data_file,
                   today_str, script_run, user_secrets, passed>>

InitLogin ==
    /\ course_template = ECON_101_GENOME
    /\ session_state = EmptyDict
    /\ wrapper = NoCall
    /\ call = NoFunctionCall
    /\ other_session = NoSession
    /\ user_data_file = NoFile
    /\ today_str = 1
    /\ script_run = NoRuns
    /\ user_secrets = NoRows
    /\ last = [op |-> "new session", code |-> "None", state |-> "None", page |-> ""]
    /\ passed = <<>>

NextLogin ==
    \/ login_app_main
    \/ login_app_new_session

SpecLogin == InitLogin /\ [][NextLogin]_vars

-----------------------------------------------------------------------------
(* Properties of the Mock Test Generator                                   *)

StageOrder == <<"mcq", "vsa", "sa", "la">>

\* the thresholds as the specification states them
Threshold(q) ==
    CASE q = "mcq" -> 70 [] q = "vsa" -> 75 [] q = "sa" -> 80 [] q = "la" -> 90

\* the number of stages that lie before the stage the session is in
StagesBefore(stage) ==
    CASE stage \in {"mcq_generating", "mcq_test", "mcq_results"} -> 0
      [] stage \in {"vsa_generating", "vsa_test", "vsa_results"} -> 1
      [] stage \in {"sa_generating", "sa_test", "sa_results"} -> 2
      [] stage \in {"la_generating", "la_test", "la_results"} -> 3
      [] stage = "final_results" -> 4
      [] OTHER -> 0

\* the results page of stage q has been drawn: the MCQ feedback was fetched,
\* the subjective answers were graded
ResultShown(q) ==
    IF q = "mcq" THEN "mcq" \in DOMAIN session_state["feedback"]
    ELSE q \in DOMAIN session_state["score"]

InResults(q) == InMock /\ Stage = results_stage_of(q) /\ ResultShown(q)

\* C8: the stages are traversed in the order MCQ, VSA, SA, LA, final results:
\* whenever the session is in a stage after the syllabus input, the results
\* steps passed since the syllabus was submitted are exactly those of the
\* stages before it, in order, each with score * 100 >= threshold * total at
\* the thresholds 70, 75, 80, 90; in final_results all four were passed.
C8_StagesPassedInOrder ==
    (InMock /\ Stage # "start") =>
        /\ Len(passed) = StagesBefore(Stage)
        /\ \A i \in 1..Len(passed) :
             /\ passed[i].stage = StageOrder[i]
             /\ passed[i].total >= 1
             /\ passed[i].score * 100 >= Threshold(StageOrder[i]) * passed[i].total

C8_Witness ==
    /\ InMock /\ Stage = "final_results"
    /\ Len(passed) = 4
    /\ passed[4].stage = "la" /\ passed[4].score = 9 /\ passed[4].total = 10

\* C9: on the results page of a stage with threshold p and n >= 1 questions,
\* the step to the next stage can be taken if and only if score * 100 >= p * n.
C9_AdvanceIffAtThreshold ==
    \A q \in q_types :
        (InResults(q) /\ Questions(q) >= 1) =>
            ((ENABLED (IF q = "mcq" THEN render_mcq_results_proceed
                       ELSE render_subjective_results_proceed))
             <=> Score(q) * 100 >= Threshold(q) * Questions(q))

\* exactly at the threshold: 3 of 4 at 75 percent
C9_Witness ==
    /\ InResults("vsa") /\ Questions("vsa") = 4 /\ Score("vsa") = 3
    /\ ENABLED render_subjective_results_proceed

\* C10: a step taken from the results page of a stage whose result is below
\* the threshold leaves the session in that stage, on its results page or
\* regenerating its question set, with the same syllabus.
C10_FailedStageStays ==
    [][\A q \in q_types :
         (/\ InResults(q) /\ Questions(q) >= 1
          /\ Score(q) * 100 < Threshold(q) * Questions(q)
          /\ Tool(session_state') = "Mock Test Generator")
         => /\ session_state'["test_stage"] \in {results_stage_of(q), generating_stage(q)}
            /\ session_state'["syllabus"] = session_state["syllabus"]]_vars

\* C11: a step that enters the test page of a stage is a successful
\* generation step taken from that stage's generating stage, and the stored
\* question set of the stage is the one that step received.
C11_TestEnteredOnlyWithNewSet ==
    [][\A q \in q_types :
         (/\ Tool(session_state') = "Mock Test Generator"
          /\ session_state'["test_stage"] = test_stage_of(q)
          /\ ~(InMock /\ Stage = test_stage_of(q)))
         => /\ InMock /\ Stage = generating_stage(q)
            /\ last'.op = "render_generating_questions" /\ last'.arg = "generated"
            /\ q \in DOMAIN session_state'["questions"]
            /\ session_state'["questions"][q] = last'.n]_vars

\* the stored 10-question set of a stage was replaced by a set of 4
C11_Witness ==
    /\ InMock /\ Stage = "vsa_test"
    /\ last.op = "render_generating_questions" /\ last.arg = "generated"
    /\ last.was = 10 /\ last.n = 4
    /\ Questions("vsa") = 4

\* C12: a step taken in final_results either stays there or leaves a session
\* without the syllabus, questions, answers, scores and feedback of the test:
\* a new test at the syllabus input, or another tool with the test keys gone.
C12_FinalResultsIsTerminal ==
    [][(InMock /\ Stage = "final_results") =>
         IF Tool(session_state') = "Mock Test Generator"
         THEN \/ session_state' = session_state
              \/ /\ session_state'["test_stage"] = "start"
                 /\ session_state'["syllabus"] = ""
                 /\ \A key \in {"questions", "user_answers", "score", "feedback"} :
                      session_state'[key] = EmptyDict
         ELSE \A key \in {"test_stage", "syllabus", "questions", "user_answers",
                           "score", "feedback"} :
                 ~Has(session_state', key)]_vars

\* "Take a New Test" was clicked after all four stages were passed
C12_Witness ==
    /\ InMock /\ Stage = "start"
    /\ last = Step("render_final_results", "new test")
    /\ session_state["syllabus"] = "" /\ session_state["questions"] = EmptyDict

\* C13: in the state reached by a grading run whose call failed, the stage
\* score is 0, there is one grading record per question of the stage, none of
\* them with score 1, and the step to the next stage cannot be taken.
C13_FailedGradingRecordsEveryQuestion ==
    \A q \in subjective_types :
        (/\ InMock /\ Stage = results_stage_of(q)
         /\ last = Step("render_subjective_results", "None"))
        => /\ q \in DOMAIN session_state["score"] /\ Score(q) = 0
           /\ q \in DOMAIN session_state["feedback"]
           /\ session_state["feedback"][q].records = Questions(q)
           /\ session_state["feedback"][q].ones = 0
           /\ ~ENABLED render_subjective_results_proceed

\* C14: in the state reached by a grading run that stored a score for a set
\* of n >= 1 questions, the stage score is the number of grading records with
\* score 1 and lies between 0 and n.
C14_StageScoreCountsCorrectAnswers ==
    \A q \in subjective_types :
        (/\ InMock /\ Stage = results_stage_of(q) /\ Questions(q) >= 1
         /\ last = Step("render_subjective_results", "graded"))
        => /\ Score(q) = session_state["feedback"][q].ones
           /\ 0 <= Score(q) /\ Score(q) <= Questions(q)

\* C15: after the MCQ form is submitted, the stored score is the number of
\* questions whose clicked option key is the question's answer key, for all
\* option texts.
C15_McqScoreCountsMatchingKeys ==
    (InMock /\ Stage = "mcq_results" /\ last.op = "render_mcq_test") =>
        session_state["score"]["mcq"]
           = Cardinality({i \in DOMAIN session_state["questions"]["mcq"] :
                             last.clicked[i] = session_state["questions"]["mcq"][i].answer})

-----------------------------------------------------------------------------
(* Properties of the Note & Lesson Engine                                  *)

PoolIds(ss) == {ss["all_chunks"][i].chunk_id : i \in DOMAIN ss["all_chunks"]}

\* C16: after a synthesis run, for every line of the edited outline that is
\* the topic of an outline entry and whose entries all have an empty
\* relevant_chunks list, the service was not called for the line and the
\* content of its note is the placeholder.
C16_NoSourceNoGeneration ==
    (InNotes /\ CurrentState = "results" /\ last.op = "show_synthesizing_state") =>
        \A i \in DOMAIN session_state["editable_outline"] :
            LET outline_data == session_state["outline_data"]
                entries == {j \in DOMAIN outline_data :
                               outline_data[j].topic = session_state["editable_outline"][i]}
            IN  (/\ entries # {}
                 /\ \A j \in entries : outline_data[j].relevant_chunks = <<>>)
                => /\ i \notin last.called
                   /\ session_state["final_notes"][i].content = Placeholder

\* C17: every chunk id in relevant_chunks of an entry of the stored outline
\* and in source_chunks of a stored note is the id of a chunk of the pool.
C17_NoDanglingChunkIds ==
    (InNotes /\ Has(session_state, "all_chunks")) =>
        /\ Has(session_state, "outline_data") =>
             \A j \in DOMAIN session_state["outline_data"] :
                 Range(session_state["outline_data"][j].relevant_chunks)
                    \subseteq PoolIds(session_state)
        /\ Has(session_state, "final_notes") =>
             \A i \in DOMAIN session_state["final_notes"] :
                 Range(session_state["final_notes"][i].source_chunks)
                    \subseteq PoolIds(session_state)

\* C18: in the state reached by "Generate / Regenerate Full Outline" on a
\* pool without a chunk of more than 10 words, the service was not called, the
\* generation is reported as failed, and the session holds no outline.
C18_InsufficientContentStoresNothing ==
    (/\ InNotes /\ last.op = "generate_content_outline"
     /\ \A i \in DOMAIN session_state["all_chunks"] : session_state["all_chunks"][i].words <= 10)
    => /\ ~last.called
       /\ last.arg = "failed"
       /\ ~Has(session_state, "outline_data")

\* the outline was requested for a pool of two chunks of exactly 10 words
C18_Witness ==
    /\ InNotes /\ CurrentState = "workspace" /\ last.op = "generate_content_outline"
    /\ Len(session_state["all_chunks"]) = 2
    /\ \A i \in DOMAIN session_state["all_chunks"] : session_state["all_chunks"][i].words = 10
    /\ ~last.called

-----------------------------------------------------------------------------
(* Properties of the retry wrapper                                         *)

\* the rate-limit signals func has raised in this call
RateLimitSignals ==
    Cardinality({i \in DOMAIN wrapper.raised : wrapper.raised[i].type = "ResourceExhausted"})

\* the wrapper has returned and takes no further step
Returned(result) ==
    /\ wrapper.pc = "returned"
    /\ wrapper.result = result
    /\ ~ENABLED NextRetry

\* C19: whatever func does at each invocation, the wrapper invokes it at most
\* MAX_RETRIES times and returns; once func has raised its MAX_RETRIES-th
\* rate-limit signal the wrapper has returned None, having slept only after
\* the earlier signals, and it neither sleeps nor calls again.
C19_Bounded ==
    /\ wrapper.calls <= MAX_RETRIES
    /\ RateLimitSignals = MAX_RETRIES
         => /\ Returned("None")
            /\ wrapper.calls = MAX_RETRIES
            /\ Len(wrapper.slept) = MAX_RETRIES - 1

C19_AtMostMaxRetriesCalls == []C19_Bounded /\ <>(wrapper.pc = "returned")

C19_Witness ==
    /\ RateLimitSignals = MAX_RETRIES
    /\ wrapper.pc = "returned"

\* C20: when the last thing func did is to raise an error that is not the
\* rate-limit signal, the wrapper has returned None in that same step: func
\* has been invoked once per error raised and not again, and time.sleep has
\* run only for the rate-limit signals before it, however many they are.
C20_OtherErrorFailsImmediately ==
    (wrapper.raised # <<>> /\ wrapper.raised[Len(wrapper.raised)].type # "ResourceExhausted")
        => /\ Returned("None")
           /\ wrapper.calls = Len(wrapper.raised)
           /\ Len(wrapper.slept) = RateLimitSignals
           /\ RateLimitSignals = Len(wrapper.raised) - 1

C20_Witness ==
    /\ Len(wrapper.raised) = MAX_RETRIES
    /\ wrapper.raised[MAX_RETRIES].type = "Exception"
    /\ RateLimitSignals = MAX_RETRIES - 1
    /\ wrapper.pc = "returned"

\* the k-th sleep of this call follows the k-th invocation of func, which
\* raised the rate-limit signal wrapper.raised[k]
SuggestsSeconds(k) == wrapper.raised[k].retry_delay # <<>>

BackoffBase == 1

\* C21 as stated: every sleep before a next attempt lasts the seconds the
\* rate-limit error suggests when it carries a retry_delay, and otherwise
\* BackoffBase * 2^k seconds, k being the number of the attempt that failed.
C21_WaitIsSuggestedOrExponential ==
    \A k \in DOMAIN wrapper.slept :
        wrapper.slept[k] = IF SuggestsSeconds(k)
                           THEN wrapper.raised[k].retry_delay[1]
                           ELSE BackoffBase * (2 ^ k)

\* C21 amended: the sleep lasts the suggested seconds plus the base delay of
\* one second when the error carries a retry_delay, and otherwise
\* BackoffBase * 2^k seconds.
C21_WaitIsSuggestedPlusBaseOrExponential ==
    \A k \in DOMAIN wrapper.slept :
        wrapper.slept[k] = IF SuggestsSeconds(k)
                           THEN wrapper.raised[k].retry_delay[1] + BackoffBase
                           ELSE BackoffBase * (2 ^ k)

C21_Witness ==
    /\ Len(wrapper.slept) = MAX_RETRIES - 1
    /\ SuggestsSeconds(1) /\ wrapper.slept[1] = 31
    /\ ~SuggestsSeconds(2) /\ wrapper.slept[2] = 4

-----------------------------------------------------------------------------
(* Properties of resilient_json_parser                                     *)

\* the well-formed record substrings of a text, as <<from, to>>
RecordSubstrings(text) ==
    {m \in (DOMAIN text) \X (DOMAIN text) :
        /\ m[1] < m[2] /\ text[m[1]] = "{" /\ text[m[2]] = "}"
        /\ well_formed(Slice(text, m[1], m[2]))}

FirstRecordSubstring(text) ==
    CHOOSE m \in RecordSubstrings(text) : \A o \in RecordSubstrings(text) : m[1] <= o[1]

\* C22: for every response text, the parser returns the record of the first
\* well-formed record substring of the text when there is one, whatever
\* prose, fences or other braces surround it, and returns None when there
\* is none.
C22_ParserReturnsFirstRecord ==
    (call.fn = "resilient_json_parser" /\ call.returned)
        => LET text == call.args[1]
           IN  IF RecordSubstrings(text) # {}
               THEN LET m == FirstRecordSubstring(text)
                    IN  call.result = json_loads(Slice(text, m[1], m[2]))
               ELSE call.result = None

-----------------------------------------------------------------------------
(* Properties of chunk_text                                                *)

ChunkCall == call.fn = "chunk_text"

ChunkWords(chunks, k) == split(chunks[k + 1].text)

\* the last m elements of a sequence (all of it when it has fewer)
LastWords(ws, m) ==
    IF Len(ws) <= m THEN ws ELSE [j \in 1..m |-> ws[Len(ws) - m + j]]

IsPrefix(p, ws) == Len(p) <= Len(ws) /\ \A j \in DOMAIN p : p[j] = ws[j]

\* C24: for a text of n words and overlap < chunk size, chunk k is the words
\* from position k*(size-overlap) on, at most size of them; the sequence
\* numbers in the ids are 0, 1, 2, ...; every word is in some chunk; each
\* chunk after the first begins with the last overlap words of the chunk
\* before it; and 1200 words with size 500 and overlap 50 give 3 chunks.
C24_SlidingWindowWithOverlap ==
    (ChunkCall /\ call.returned /\ call.args[4] < call.args[3])
        => LET words == split(call.args[1])
               size == call.args[3]
               overlap == call.args[4]
               chunks == call.result[1].chunks
               n == Len(chunks)
           IN  /\ call.result[1].raised = ""
               /\ \A k \in 0..(n - 1) :
                    /\ ChunkWords(chunks, k) = words_slice(words, k * (size - overlap), size)
                    /\ chunks[k + 1].chunk_id.chunk = k
               /\ \A i \in DOMAIN words :
                    \E k \in 0..(n - 1) :
                        i - 1 \in (k * (size - overlap))..(k * (size - overlap) + size - 1)
               /\ \A k \in 1..(n - 1) :
                    IsPrefix(LastWords(ChunkWords(chunks, k - 1), overlap),
                             ChunkWords(chunks, k))
               /\ Len(range_from_zero(1200, chunk_step(CHUNK_SIZE, CHUNK_OVERLAP))) = 3

\* C25: with overlap < chunk size, chunk_text returns the empty list and
\* raises nothing for the empty text and for a text that is whitespace only.
C25_EmptyTextGivesNoChunks ==
    (/\ ChunkCall /\ call.returned
     /\ call.args[4] < call.args[3]
     /\ \A i \in DOMAIN call.args[1] : call.args[1][i] = 0)
        => call.result[1] = [raised |-> "", chunks |-> <<>>]

C25_Witness ==
    /\ ChunkCall /\ call.returned
    /\ call.args[1] = <<0>>
    /\ call.args[3] > call.args[4]

-----------------------------------------------------------------------------
(* Properties of a processing run                                          *)

ProcessingDone == call.fn = "show_processing_state" /\ call.returned

\* the elements of a sequence
Elements(seq) == {seq[j] : j \in DOMAIN seq}

\* C26: after a processing run the chunk pool holds the chunks of every file
\* whose extraction succeeded, each once and no other, whatever happened to
\* the other files, and the failure list holds one entry per failed file
\* with its source id and a reason.
C26_FailuresDoNotStopOtherSources ==
    ProcessingDone
        => LET files == call.args[1]
               all_chunks == session_state["all_chunks"]
               failures == session_state["extraction_failures"]
               ok == {i \in DOMAIN files : files[i] # "Exception"}
           IN  /\ Elements(all_chunks)
                    = UNION {Elements(process_source(i, files[i]).chunks) : i \in ok}
               /\ \A j, k \in DOMAIN all_chunks : all_chunks[j] = all_chunks[k] => j = k
               /\ {f.source_id : f \in Elements(failures)}
                    = {source_id_of(i) : i \in (DOMAIN files) \ ok}
               /\ Len(failures) = Cardinality((DOMAIN files) \ ok)
               /\ \A f \in Elements(failures) : f.reason # ""

C26_Witness ==
    /\ ProcessingDone
    /\ Len(call.args[1]) = 3
    /\ Len(session_state["extraction_failures"]) = 1
    /\ Len(session_state["all_chunks"]) >= 2

\* the results in another order of completion
Reordered(results, p) == [j \in DOMAIN results |-> results[p[j]]]

\* C27: the chunk pool and the failure list are written only when every task
\* has finished, and the pool written is the ordered list that any other
\* order of completion of the same tasks would have given.
C27_PoolIndependentOfCompletionOrder ==
    /\ (Has(session_state, "all_chunks") \/ Has(session_state, "extraction_failures"))
         => (call.fn = "show_processing_state" /\ Len(call.result) = Len(call.args[1]))
    /\ ProcessingDone
         => \A p \in Permutations(DOMAIN call.result) :
                success_chunks(Reordered(call.result, p)) = session_state["all_chunks"]

-----------------------------------------------------------------------------
(* Properties of two concurrent sessions                                   *)

-----------------------------------------------------------------------------
(* Properties of the Mastery Engine                                        *)

\* user_progress of a session state; the key exists in the Mastery Engine only
ProgressOf(ss) == IF Has(ss, "user_progress") THEN ss["user_progress"] ELSE EmptyDict

GenomeOf(ss) ==
    IF Has(ss, "current_genome") /\ ss["current_genome"] # NoneGenome
    THEN ss["current_genome"] ELSE [subject |-> "None", nodes |-> <<>>, edges |-> {}]

StateRank(state) ==
    CASE state = "locked" -> 0 [] state = "unlocked" -> 1 [] state = "mastered" -> 2

\* node_id is not mastered before the step and mastered after it
BecomesMastered(node_id) ==
    /\ node_id \in DOMAIN ProgressOf(session_state')
    /\ ProgressOf(session_state')[node_id] = "mastered"
    /\ DictGet(ProgressOf(session_state), node_id, "locked") # "mastered"

\* the step is a run of the results page of a boss battle
BattleResultsStep ==
    /\ last'.op = "render_boss_battle"
    /\ last'.arg = "boss_mcq_results"

MasteredOnlyAtSevenCorrect ==
    [][\A node_id \in DOMAIN ProgressOf(session_state') :
         BecomesMastered(node_id) =>
            /\ BattleResultsStep
            /\ session_state["selected_node_id"] = node_id
            /\ session_state["syllabus"] = node_id
            /\ DictGet(ProgressOf(session_state), node_id, "absent") = "unlocked"
            /\ DictGet(session_state["score"], "mcq", 0) >= 7]_vars

C5_LoadedCourseStartsAtRoots ==
    last.op = "load_course" =>
        /\ DOMAIN Progress = Range(Genome.nodes)
        /\ \A node_id \in Range(Genome.nodes) :
             /\ (\A edge \in Genome.edges : edge.to # node_id) => Progress[node_id] = "unlocked"
             /\ (\E edge \in Genome.edges : edge.to = node_id) => Progress[node_id] = "locked"
             /\ Progress[node_id] # "mastered"

\* a course with a node of two prerequisites has just been loaded
C5_Witness ==
    /\ last.op = "load_course"
    /\ \E node_id \in Range(Genome.nodes) :
         /\ Cardinality({edge \in Genome.edges : edge.to = node_id}) >= 2
         /\ Progress[node_id] = "locked"
    /\ \E node_id \in Range(Genome.nodes) : Progress[node_id] = "unlocked"

\* C6: a step after which a node is newly mastered leaves the genome (nodes
\* and edges) and the set of nodes with a progress state as they were, and
\* changes the state of no node other than that node and the targets of its
\* outgoing edges.
C6_MarkingChangesNodeAndTargetsOnly ==
    [][\A node_id \in DOMAIN ProgressOf(session_state') :
         BecomesMastered(node_id) =>
            /\ GenomeOf(session_state') = GenomeOf(session_state)
            /\ DOMAIN ProgressOf(session_state') = DOMAIN ProgressOf(session_state)
            /\ \A other \in DOMAIN ProgressOf(session_state) :
                 (/\ other # node_id
                  /\ [from |-> node_id, to |-> other] \notin GenomeOf(session_state).edges)
                 => ProgressOf(session_state')[other] = ProgressOf(session_state)[other]]_vars

\* the selected node was just mastered, a target of it is unlocked, and a
\* node that is neither is still locked
C6_Witness ==
    /\ InMastery /\ last = Step("render_boss_battle", "boss_mcq_results")
    /\ \E node_id, target, other \in Range(Genome.nodes) :
         /\ Progress[node_id] = "mastered"
         /\ [from |-> node_id, to |-> target] \in Genome.edges
         /\ Progress[target] = "unlocked"
         /\ other \notin {node_id, target}
         /\ [from |-> node_id, to |-> other] \notin Genome.edges
         /\ \E edge \in Genome.edges : edge.to = other
         /\ Progress[other] = "locked"

\* C7: a step of "Generate Concept Allele" that produced a concept appends
\* the concept's node when its id is not in the genome and adds no node when
\* it is; it adds no edge, sets the concept's state to unlocked, and leaves
\* the state of every other node as it was.
C7_AddingConceptAppendsOneRoot ==
    [][(last'.op = "add_concept" /\ last'.arg # "None") =>
         LET new_allele == last'.arg
             before == GenomeOf(session_state)
             after == GenomeOf(session_state')
         IN  /\ after.nodes = IF new_allele \in Range(before.nodes) THEN before.nodes
                              ELSE before.nodes \o <<new_allele>>
             /\ after.edges = before.edges
             /\ \A edge \in after.edges : edge.to # new_allele
             /\ ProgressOf(session_state')[new_allele] = "unlocked"
             /\ DOMAIN ProgressOf(session_state')
                   = DOMAIN ProgressOf(session_state) \cup {new_allele}
             /\ \A other \in DOMAIN ProgressOf(session_state) \ {new_allele} :
                  ProgressOf(session_state')[other] = ProgressOf(session_state)[other]]_vars

\* a concept was added to the loaded Econ 101 course
C7_Witness ==
    /\ InMastery /\ last = Step("add_concept", "USER_A")
    /\ Genome.nodes = ECON_101_GENOME.nodes \o <<"USER_A">>
    /\ Genome.edges = ECON_101_GENOME.edges
    /\ Progress["USER_A"] = "unlocked"
    /\ Progress["ECON101_OPPCOST"] = "locked"


\* the session is in a boss battle
InBattle(ss) ==
    /\ Tool(ss) = "Mastery Engine"
    /\ Has(ss, "mastery_stage") /\ ss["mastery_stage"] = "boss_battle"

\* C29: in every state of a boss battle the syllabus given to the question
\* generation is the one built from the selected node; the selected node
\* does not change from one step of the battle to the next; and a node that
\* becomes mastered is the selected node of the battle in which the step is
\* taken.
C29_BattleScopedToOneNode ==
    [][/\ InBattle(session_state')
            => /\ Has(session_state', "selected_node_id")
               /\ Has(session_state', "syllabus")
               /\ session_state'["syllabus"] = session_state'["selected_node_id"]
       /\ (InBattle(session_state) /\ InBattle(session_state'))
            => session_state'["selected_node_id"] = session_state["selected_node_id"]
       /\ \A node_id \in DOMAIN ProgressOf(session_state') :
            BecomesMastered(node_id)
                => /\ InBattle(session_state)
                   /\ node_id = session_state["selected_node_id"]
                   /\ node_id = session_state["syllabus"]]_vars

C29_Witness ==
    /\ InBattle(session_state)
    /\ last.op = "render_boss_battle" /\ last.arg = "boss_mcq_results"
    /\ session_state["selected_node_id"] = "ECON101_OPPCOST"
    /\ session_state["syllabus"] = "ECON101_OPPCOST"
    /\ Progress["ECON101_OPPCOST"] = "mastered"
    /\ Progress["ECON101_SND"] = "unlocked"


-----------------------------------------------------------------------------
(* Properties of reset_session                                             *)

GlobalKeys == {"user_info", "all_chunks", "tool_choice", "last_tool_choice", "landing_view"}

Restricted(ss, keys) == [k \in DOMAIN ss \cap keys |-> ss[k]]

ToolSwitchStep == last'.op = "select_tool"

NewSessionStep == last'.op = "show_results_state" /\ last'.arg = "Start New Session"

\* C30: reset_session returns the session state restricted to user_info,
\* all_chunks, tool_choice, last_tool_choice and landing_view, with their
\* values; a script run that switches the tool or starts a new session keeps
\* the login and the chunk pool as they were, and the state it leaves is the
\* one the tool's entry builds from the five keys alone.
C30_ResetKeepsGlobalKeysOnly ==
    [][/\ reset_session(session_state) = Restricted(session_state, GlobalKeys)
       /\ (ToolSwitchStep \/ NewSessionStep)
            => /\ Restricted(session_state', {"user_info", "all_chunks", "landing_view"})
                    = Restricted(session_state, {"user_info", "all_chunks", "landing_view"})
               /\ session_state' = tool_routing(Restricted(session_state', GlobalKeys))
       /\ NewSessionStep
            => Restricted(session_state', GlobalKeys) = Restricted(session_state, GlobalKeys)
       /\ ToolSwitchStep
            => /\ session_state'["tool_choice"] = last'.arg
               /\ session_state'["last_tool_choice"] = last'.arg]_vars

\* a tool switch with a chunk pool and tool-specific state in the session
C30_Witness ==
    /\ last.op = "select_tool"
    /\ Has(session_state, "all_chunks") /\ session_state["all_chunks"] # <<>>
    /\ Has(session_state, "user_info")
    /\ ~Has(session_state, "final_notes")
    /\ ~Has(session_state, "outline_data")


-----------------------------------------------------------------------------
(* Properties of the user data file                                        *)

\* the step in which a processing run ends
ProcessingRunEnds == ~ProcessingDone /\ ProcessingDone'

\* at least one of the uploaded files is extracted without an exception
AnySuccess == \E i \in DOMAIN call.args[1] : call.args[1][i] # "Exception"

\* the stored usage counter of the user's tier
UsageCounter(user_data) ==
    IF user_data.user_tier = "free" THEN user_data.total_analyses
    ELSE user_data.daily_analyses_count

\* the analyses the file counts against the limit on a day
AnalysesCounted(user_data, day) ==
    IF user_data.user_tier = "free" THEN user_data.total_analyses
    ELSE IF user_data.last_analysis_date = day THEN user_data.daily_analyses_count
    ELSE 0

\* C31 as stated: a processing run with a successful source adds one to the
\* stored counter of the user's tier, and a run without one leaves the file
\* as it was.
C31_StoredCounterPlusOne ==
    [][ProcessingRunEnds
         => IF AnySuccess
            THEN UsageCounter(load_user_data(user_data_file'))
                    = UsageCounter(load_user_data(user_data_file)) + 1
            ELSE user_data_file' = user_data_file]_vars

\* C31: a processing run with a successful source adds one to the analyses
\* counted for the user on the day of the run (for a paid user the stored
\* daily count when it is of that day, none otherwise), stamps a paid
\* user's file with that day and changes nothing else in the file; a run
\* without a successful source leaves the file as it was.
C31_CountedAnalysesPlusOne ==
    [][ProcessingRunEnds
         => LET before == load_user_data(user_data_file)
                after == load_user_data(user_data_file')
            IN  IF AnySuccess
                THEN /\ AnalysesCounted(after, today_str)
                            = AnalysesCounted(before, today_str) + 1
                     /\ after.user_tier = before.user_tier
                     /\ after.sessions = before.sessions
                     /\ IF before.user_tier = "free"
                        THEN /\ after.last_analysis_date = before.last_analysis_date
                             /\ after.daily_analyses_count = before.daily_analyses_count
                        ELSE /\ after.last_analysis_date = today_str
                             /\ after.total_analyses = before.total_analyses
                ELSE user_data_file' = user_data_file]_vars

\* a paid user's first run of day 2, with one failed and one extracted file
C31_Witness ==
    /\ ProcessingDone
    /\ today_str = 2
    /\ user_data_file.exists /\ user_data_file.user_tier = "paid"
    /\ user_data_file.last_analysis_date = 2
    /\ user_data_file.daily_analyses_count = 1
    /\ Len(session_state["extraction_failures"]) = 1
    /\ Len(session_state["all_chunks"]) >= 1


AllIdle == \A s \in DOMAIN script_run : Idle(s)

\* C32: the file of a free-tier user never counts more than FREE_TIER_LIMIT
\* analyses, and the file of a paid-tier user never counts more than
\* PAID_TIER_DAILY_LIMIT analyses for its date, whatever the sessions of
\* the user do.
C32_UsageWithinLimits ==
    LET user_data == load_user_data(user_data_file)
    IN  /\ user_data.user_tier = "free" => user_data.total_analyses <= FREE_TIER_LIMIT
        /\ user_data.user_tier = "paid"
             => user_data.daily_analyses_count <= PAID_TIER_DAILY_LIMIT

\* C33: when no operation is between its load and its save, the file is
\* what the completed operations give one after the other.
C33_NoUpdateLost ==
    (script_run # NoRuns /\ AllIdle) => load_user_data(user_data_file) = last.serial


-----------------------------------------------------------------------------
(* Further properties of the Mock Test Generator                           *)

\* C34: a subjective results page decides (Proceed or Restart) only on a
\* score that the grading run of that page has just stored: the step before
\* the decision is the grading of the answers submitted for the question set
\* on the page.
C34_DecisionUsesFreshScore ==
    [][(last'.op = "render_subjective_results" /\ last'.arg \in {"proceed", "restart"})
         => (last.op = "render_subjective_results" /\ last.arg \in {"graded", "None"})]_vars


-----------------------------------------------------------------------------
(* Further properties of the boss battle                                   *)

\* C35: in every state of a boss battle some run of the battle page changes
\* the session, which a way back to the skill tree or to the content viewer
\* needs.
C35_BattleCanMove ==
    InBattle(session_state) => ENABLED (boss_battle /\ session_state' # session_state)


\* C36: on the test page and on the results page of a stage of the Mock
\* Test Generator the stage's question set has at least one question.
C36_StageHasQuestions ==
    InMock => \A q \in q_types :
                  Stage \in {test_stage_of(q), results_stage_of(q)} => Questions(q) >= 1


-----------------------------------------------------------------------------
(* Further properties of the Note & Lesson Engine                          *)

\* C37: after a synthesis run the stored notes have one block per line of
\* the edited outline, in the order of the lines, and the content of every
\* block is the placeholder or the text the service returned, never None.
C37_NotesHaveTextContent ==
    (InNotes /\ CurrentState = "results" /\ last.op = "show_synthesizing_state") =>
        LET topics == session_state["editable_outline"]
            final_notes == session_state["final_notes"]
        IN  /\ Len(final_notes) = Len(topics)
            /\ \A i \in DOMAIN topics :
                 /\ final_notes[i].topic = topics[i]
                 /\ final_notes[i].content \in {"text", Placeholder}


\* C38: in the workspace state and in the synthesizing state of the Note &
\* Lesson Engine the session holds a chunk pool.
C38_WorkspaceHasChunkPool ==
    (InNotes /\ CurrentState \in {"workspace", "synthesizing"})
        => Has(session_state, "all_chunks")


\* C39: the chunk ids of the pool of a processing run are pairwise distinct.
C39_ChunkIdsDistinct ==
    ProcessingDone
        => \A j, k \in DOMAIN session_state["all_chunks"] :
               session_state["all_chunks"][j].chunk_id = session_state["all_chunks"][k].chunk_id
                   => j = k


-----------------------------------------------------------------------------
(* Properties of the login app                                             *)

SignedIn(ss) == Has(ss, "user_email")

\* C40: a run signs the session in only when the code of its callback is
\* exchanged with success and the state of the callback is the state issued
\* in the authorization URL; a run whose exchange fails leaves the session
\* signed out; and the API-key form is drawn only in a signed-in session.
C40_SignInNeedsIssuedState ==
    [][/\ (~SignedIn(session_state) /\ SignedIn(session_state'))
            => /\ ~exchange_code_for_userinfo(last'.code).raised
               /\ session_state'["user_email"] = exchange_code_for_userinfo(last'.code).email
               /\ last'.state = STATE_SECRET
       /\ last'.page = "Google login failed" => ~SignedIn(session_state')
       /\ last'.page \in {"apikey form", "saved"} => SignedIn(session_state')]_vars

====
